---------------------------- MODULE Spec2Model ----------------------------
(***************************************************************************)
(* Model of the DevSolves authentication subsystem: the token codec        *)
(* (lib/auth/jwt), the edge route guard (middleware.ts), the fixed-window  *)
(* rate limiter (lib/auth/rateLimit), the refresh / login / register       *)
(* route handlers and the user store they share.                           *)
(*                                                                         *)
(* Text is modelled symbolically.  A token string is the sequence of its   *)
(* dot-separated segments (what String.split('.') returns).  A base64url   *)
(* segment is a constructor around the text it encodes, JSON text is a     *)
(* constructor around the value it denotes, and an HMAC-SHA256 signature   *)
(* is a constructor around (signed data, key): two signatures are equal    *)
(* exactly when data and key are equal (no collisions).                    *)
(***************************************************************************)
EXTENDS Integers, Sequences, FiniteSets, TLC

VARIABLES
    clock,          \* Date.now(), in milliseconds
    jwtSecretEnv,   \* process.env.JWT_SECRET ("" when unset)
    token,          \* the token string under test, as its segments
    tokenMeta,      \* ghost: how the token under test was produced
    verifyResult,   \* last result of verifyToken on (token, clock)
    edgeResult,     \* last result of verifyTokenEdge on (token, clock)
    rateLimitStore, \* the Map of rateLimit.ts: key -> {count, resetTime}
    rlConfig,       \* the RateLimitConfig each key is always checked with
    rlGhost,        \* ghost: per key, the fixed window the calls fall in
    rlLast,         \* the last checkRateLimit call and what it returned
    users,          \* the users collection: _id -> document
    accessCookie,   \* the access_token cookie the client presents (<<>>: none)
    refreshCookie,  \* the refresh_token cookie the client presents (<<>>: none)
    lastResponse,   \* the response to the last request
    regs,           \* the registration requests in flight: where each stands
    mailbox,        \* the e-mails handed to the transport, with their raw tokens
    nonce,          \* how many random tokens generateToken has drawn
    held,           \* token strings a client kept aside from its cookie jar
    lastReset,      \* the last successful password reset: whose, old and new
    plainStore,     \* the Map of a rate limiter that never runs the sweep
    smtp,           \* the mail transport: "none" (not configured), "up", "down"
    cached,         \* global.mongooseConnection: {conn, promise} (0: null)
    dbState,        \* the connect attempts and the dbConnect calls in progress
    resets,         \* the reset-password requests in flight: where each stands
    questions,      \* the questions collection, in order of creation
    sendAttempts    \* how many times transporter.sendMail was called

tokVars == <<jwtSecretEnv, token, tokenMeta, verifyResult, edgeResult>>
rlVars == <<rateLimitStore, rlConfig, rlGhost, rlLast>>
sessVars == <<users, accessCookie, refreshCookie, lastResponse>>
acctVars == <<mailbox, nonce, held, lastReset>>
dbVars == <<cached, dbState>>
appVars == <<resets, questions>>
envVars == <<smtp, dbVars, appVars>>
restVars == <<plainStore, envVars>>
extVars == <<restVars, sendAttempts>>
vars == <<clock, tokVars, rlVars, sessVars, regs, acctVars, extVars>>

-----------------------------------------------------------------------------
(* Bounds of the model                                                     *)

MaxSec == 3
\* the instants inside one second at which the clock is observed
Fracs == {0, 500, 999}
MsPerSec == 1000
TimePoints == {s * MsPerSec + f : s \in 0..MaxSec, f \in Fracs}

Users == {"u1", "u2"}
EmailOf(u) == IF u = "u1" THEN "a@x.io" ELSE "b@x.io"
RoleOf(u) == IF u = "u1" THEN "user" ELSE "admin"

\* JS values of the isVerified property: true, false, or property absent
VerifiedFlags == {"true", "false", "undefined"}

\* TokenPayload objects handed to signToken (part_000:19-23, plus the
\* isVerified property the login route adds, part_010:231-236)
ClaimSets ==
    {[userId |-> u, email |-> EmailOf(u), role |-> RoleOf(u), isVerified |-> v] :
        u \in Users, v \in VerifiedFlags}

\* duration strings "<value><unit>"; unit "x" stands for a string the
\* regular expression of parseDuration does not match
Durations == {[value |-> 1, unit |-> "s"], [value |-> 2, unit |-> "s"],
              [value |-> 1, unit |-> "m"], [value |-> 1, unit |-> "x"]}

SecretsEnv == {"", "k1"}

\* rate limiter: keys, configurations and the length of a run
RlKeys == {<<"login", "ip1">>, <<"register", "ip1">>}
MaxWindowMs == 2
MaxRequests == 2
MaxCount == 3
MaxRlClock == 4
MaxLoginCount == 6
MaxReqs == 2
Reqs == 1..MaxReqs
RlConfigs ==
    {[windowMs |-> w, maxRequests |-> n] : w \in 1..MaxWindowMs, n \in 1..MaxRequests}

-----------------------------------------------------------------------------
(* Token codec: src/unnamed/part_000 (lib/auth/jwt)                        *)

Null == [kind |-> "null"]
NotRun == [kind |-> "notrun"]

FALLBACK_MAIN == "fallback-secret-change-in-production"
FALLBACK_EDGE == "fallback-secret"

\* const JWT_SECRET = process.env.JWT_SECRET || '...'
JWT_SECRET == IF jwtSecretEnv = "" THEN FALLBACK_MAIN ELSE jwtSecretEnv

\* the secret verifyTokenEdge reads (middleware.ts:39)
JWT_SECRET_EDGE == IF jwtSecretEnv = "" THEN FALLBACK_EDGE ELSE jwtSecretEnv

DefaultDurationMs == 15 * 60 * 1000

parseDuration(d) ==
    CASE d.unit = "s" -> d.value * 1000
      [] d.unit = "m" -> d.value * 60 * 1000
      [] d.unit = "h" -> d.value * 60 * 60 * 1000
      [] d.unit = "d" -> d.value * 24 * 60 * 60 * 1000
      [] OTHER -> DefaultDurationMs

\* JSON.stringify of an object / JSON.parse of a text
JSONstringify(obj) == [kind |-> "json", val |-> obj]
GarbageText == [kind |-> "garbage"]
JSONparse(text) ==
    IF text.kind = "json" THEN [ok |-> TRUE, val |-> text.val]
    ELSE [ok |-> FALSE]

\* segments
EmptySeg == [kind |-> "empty"]       \* the empty string
NotB64Seg == [kind |-> "notb64"]     \* characters outside the alphabet

base64urlEncode(text) == [kind |-> "b64", text |-> text]

base64urlDecode(seg) ==
    IF seg.kind = "b64" THEN seg.text ELSE GarbageText

createSignature(data, secret) == [kind |-> "sig", data |-> data, key |-> secret]

Header == [alg |-> "HS256", typ |-> "JWT"]

\* Math.floor(Date.now() / 1000)
NowSec(nowMs) == nowMs \div MsPerSec

signTokenWith(payload, expiresIn, nowMs, secret) ==
    LET now == NowSec(nowMs)
        exp == now + (parseDuration(expiresIn) \div 1000)
        fullPayload == [userId |-> payload.userId, email |-> payload.email,
                        role |-> payload.role, isVerified |-> payload.isVerified,
                        iat |-> now, exp |-> exp]
        encodedHeader == base64urlEncode(JSONstringify(Header))
        encodedPayload == base64urlEncode(JSONstringify(fullPayload))
        signature == createSignature(<<encodedHeader, encodedPayload>>, secret)
    IN <<encodedHeader, encodedPayload, signature>>

signToken(payload, expiresIn, nowMs) ==
    signTokenWith(payload, expiresIn, nowMs, JWT_SECRET)

\* payload.exp < Math.floor(Date.now() / 1000)
IsExpired_Revoked(exp, nowMs) == TRUE
IsExpired(exp, nowMs) == exp < NowSec(nowMs)

\* a decoded payload is the JSON value null, or an object with an exp
IsObject(v) == "exp" \in DOMAIN v

verifyToken(tok, nowMs) ==
    IF Len(tok) # 3 THEN Null
    ELSE LET encodedHeader == tok[1]
             encodedPayload == tok[2]
             signature == tok[3]
             expectedSignature ==
                 createSignature(<<encodedHeader, encodedPayload>>, JWT_SECRET)
         IN IF signature # expectedSignature THEN Null
            ELSE LET parsed == JSONparse(base64urlDecode(encodedPayload))
                 IN IF ~parsed.ok THEN Null             \* JSON.parse throws
                    ELSE IF ~IsObject(parsed.val) THEN Null  \* null.exp throws
                    ELSE IF IsExpired(parsed.val.exp, nowMs) THEN Null
                    ELSE parsed.val


-----------------------------------------------------------------------------
(* Edge verifier of the route guard: src/middleware.ts:37-76               *)

\* atob(encodedPayload.replace(...)): throws on characters outside the
\* alphabet, yields '' for '', both of which end in the catch block
atobDecode(seg) ==
    IF seg.kind = "b64" THEN seg.text ELSE GarbageText

EdgeInvalid == [valid |-> FALSE, isVerified |-> "undefined"]

verifyTokenEdge(tok, nowMs) ==
    IF Len(tok) # 3 THEN EdgeInvalid
    ELSE LET encodedHeader == tok[1]
             encodedPayload == tok[2]
             signature == tok[3]
             expectedSignature ==
                 createSignature(<<encodedHeader, encodedPayload>>, JWT_SECRET_EDGE)
         IN IF signature # expectedSignature THEN EdgeInvalid
            ELSE LET parsed == JSONparse(atobDecode(encodedPayload))
                 IN IF ~parsed.ok THEN EdgeInvalid
                    ELSE IF ~IsObject(parsed.val) THEN EdgeInvalid
                    ELSE IF IsExpired(parsed.val.exp, nowMs) THEN EdgeInvalid
                    ELSE [valid |-> TRUE, isVerified |-> parsed.val.isVerified]

-----------------------------------------------------------------------------
(* Specification of the codec: tokens are signed, altered and verified     *)

NoMeta == [origin |-> "none"]

TamperKinds == {"oneSegment", "twoSegments", "fourSegments", "emptyString",
                "wrongSignature", "emptySignature", "alterPayload",
                "junkPayloadResigned", "nullPayloadResigned",
                "emptyPayloadResigned", "emptyHeaderResigned",
                "edgeFallbackResigned"}

JsonNull == [kind |-> "jsnull"]

Resign(h, p, secret) == <<h, p, createSignature(<<h, p>>, secret)>>

\* the payload of tok with its expiry pushed out and its flag set
AlteredPayload(tok) ==
    LET v == tok[2].text.val
    IN base64urlEncode(JSONstringify(
           [v EXCEPT !.exp = v.exp + 1000, !.isVerified = "true", !.role = "admin"]))

Tampered(tok, kind) ==
    CASE kind = "oneSegment" -> <<tok[1]>>
      [] kind = "twoSegments" -> <<tok[1], tok[2]>>
      [] kind = "fourSegments" -> tok \o <<tok[3]>>
      [] kind = "emptyString" -> <<EmptySeg>>
      [] kind = "wrongSignature" ->
             <<tok[1], tok[2], createSignature(tok[3].data, "some-other-key")>>
      [] kind = "emptySignature" -> <<tok[1], tok[2], EmptySeg>>
      [] kind = "alterPayload" -> <<tok[1], AlteredPayload(tok), tok[3]>>
      [] kind = "junkPayloadResigned" -> Resign(tok[1], NotB64Seg, JWT_SECRET)
      [] kind = "nullPayloadResigned" ->
             Resign(tok[1], base64urlEncode(JSONstringify(JsonNull)), JWT_SECRET)
      [] kind = "emptyPayloadResigned" -> Resign(tok[1], EmptySeg, JWT_SECRET)
      [] kind = "emptyHeaderResigned" -> Resign(EmptySeg, tok[2], JWT_SECRET)
      [] kind = "edgeFallbackResigned" -> Resign(tok[1], tok[2], FALLBACK_EDGE)

\* the rate limiter before any request: new Map()
RlIdle ==
    /\ rateLimitStore = <<>>
    /\ rlGhost = [k \in RlKeys |-> [open |-> FALSE, start |-> 0, idx |-> 0,
                                    admitted |-> 0, allowedAt |-> <<>>]]
    /\ rlLast = NotRun

\* no user, no cookie, no request yet
SessIdle ==
    /\ users = <<>>
    /\ accessCookie = <<>>
    /\ refreshCookie = <<>>
    /\ lastResponse = [op |-> "none"]

\* no registration request yet
\* a registration request that has not arrived
RegIdleReq ==
    [pc |-> "idle", name |-> "", email |-> "", password |-> "",
     status |-> 0, errors |-> "none", via |-> "none", cookies |-> <<>>]

RegIdle == regs = [r \in Reqs |-> RegIdleReq]

\* what the later sections add to the state, before any request
MaxAttempts == 3
MaxCallers == 3
Attempts == 1..MaxAttempts
DbCallers == 1..MaxCallers

\* cached = { conn: null, promise: null } (connection.ts:50-54), no call yet
DbIdle ==
    /\ cached = [conn |-> 0, promise |-> 0]
    /\ dbState = [att |-> [a \in Attempts |-> "none"],
                  waitQ |-> [a \in Attempts |-> <<>>],
                  touched |-> [a \in Attempts |-> FALSE],
                  pc |-> [c \in DbCallers |-> "idle"],
                  on |-> [c \in DbCallers |-> 0],
                  disc |-> FALSE]

\* a reset-password request that has not arrived
ResetIdleReq == [pc |-> "idle", token |-> <<>>, password |-> "", user |-> <<>>,
                 status |-> 0, stale |-> FALSE]

\* no reset-password request in flight, no question asked
AppIdle ==
    /\ resets = [r \in Reqs |-> ResetIdleReq]
    /\ questions = <<>>

ExtIdle ==
    /\ plainStore = <<>>
    /\ smtp = "up"
    /\ sendAttempts = 0
    /\ DbIdle
    /\ AppIdle

\* no e-mail sent, no token drawn, nothing kept aside
AcctIdle ==
    /\ mailbox = {}
    /\ nonce = 1
    /\ held = <<>>
    /\ lastReset = <<>>
    /\ ExtIdle

\* no token under test
TokIdle ==
    /\ token = <<>>
    /\ tokenMeta = NoMeta
    /\ verifyResult = NotRun
    /\ edgeResult = NotRun

InitToken ==
    /\ clock = 0
    /\ jwtSecretEnv \in SecretsEnv
    /\ TokIdle
    /\ RlIdle
    /\ rlConfig = [k \in RlKeys |-> [windowMs |-> 1, maxRequests |-> 1]]
    /\ SessIdle
    /\ RegIdle
    /\ AcctIdle

\* signToken(payload, expiresIn) at the current time
SignToken(payload, expiresIn) ==
    /\ token' = signToken(payload, expiresIn, clock)
    /\ tokenMeta' = [origin |-> "signed", claims |-> payload,
                     ttlMs |-> parseDuration(expiresIn), signedAt |-> clock]
    /\ verifyResult' = NotRun
    /\ edgeResult' = NotRun
    /\ UNCHANGED <<extVars, clock, jwtSecretEnv, rlVars, sessVars, regs, acctVars>>

\* the holder of a signed token presents an altered string instead
TamperToken(kind) ==
    /\ tokenMeta.origin = "signed"
    /\ token' = Tampered(token, kind)
    /\ tokenMeta' = [tokenMeta EXCEPT !.origin = kind]
    /\ verifyResult' = NotRun
    /\ edgeResult' = NotRun
    /\ UNCHANGED <<extVars, clock, jwtSecretEnv, rlVars, sessVars, regs, acctVars>>

VerifyToken ==
    /\ tokenMeta.origin # "none"
    /\ verifyResult' = verifyToken(token, clock)
    /\ UNCHANGED <<extVars, clock, jwtSecretEnv, token, tokenMeta, edgeResult, rlVars, sessVars, regs, acctVars>>

VerifyTokenEdge ==
    /\ tokenMeta.origin # "none"
    /\ edgeResult' = verifyTokenEdge(token, clock)
    /\ UNCHANGED <<extVars, clock, jwtSecretEnv, token, tokenMeta, verifyResult, rlVars, sessVars, regs, acctVars>>

AdvanceClockToken(t) ==
    /\ t > clock
    /\ clock' = t
    /\ verifyResult' = NotRun
    /\ edgeResult' = NotRun
    /\ UNCHANGED <<extVars, jwtSecretEnv, token, tokenMeta, rlVars, sessVars, regs, acctVars>>

NextToken ==
    \/ \E payload \in ClaimSets, d \in Durations : SignToken(payload, d)
    \/ \E kind \in TamperKinds : TamperToken(kind)
    \/ VerifyToken
    \/ VerifyTokenEdge
    \/ \E t \in TimePoints : AdvanceClockToken(t)

SpecToken == InitToken /\ [][NextToken]_vars

\* the exp field of the payload a signed token carries
PayloadExp(tok) == tok[2].text.val.exp

\* the identity claims carried by a verification result
ClaimsOf(result) ==
    [userId |-> result.userId, email |-> result.email,
     role |-> result.role, isVerified |-> result.isVerified]

ElapsedSinceSigning == clock - tokenMeta.signedAt

\* C1: verifyToken applied to a token produced by signToken(C, t), t > 0,
\* returns the claims of C unchanged at every time before t has elapsed
\* since signing, and returns null at every time after t has elapsed.
C1_RoundTripUntilExpiry ==
    (tokenMeta.origin = "signed" /\ tokenMeta.ttlMs > 0 /\ verifyResult # NotRun) =>
        /\ ElapsedSinceSigning < tokenMeta.ttlMs =>
               /\ verifyResult # Null
               /\ ClaimsOf(verifyResult) = tokenMeta.claims
        /\ ElapsedSinceSigning > tokenMeta.ttlMs => verifyResult = Null

\* three non-empty segments, the third the keyed signature of the first two
WellFormed(tok) ==
    /\ Len(tok) = 3
    /\ \A i \in 1..3 : tok[i] # EmptySeg
    /\ tok[3] = createSignature(<<tok[1], tok[2]>>, JWT_SECRET)

\* C2: verifyToken returns null (and never throws) for every input that is
\* not exactly three non-empty dot-separated segments whose third segment
\* is the keyed signature of the first two, and for every token whose
\* payload cannot be decoded.
C2_MalformedRejected ==
    (verifyResult # NotRun /\ ~WellFormed(token)) => verifyResult = Null

\* C3: for every token, time and environment (JWT_SECRET set or unset) the
\* guard's verifyTokenEdge reports valid exactly when verifyToken returns
\* a payload.
C3_VerifiersAgree ==
    (verifyResult # NotRun /\ edgeResult # NotRun) =>
        (edgeResult.valid <=> verifyResult # Null)

\* C20: verifyToken and verifyTokenEdge both reject a token whose expiry
\* timestamp is at or before the current time in seconds; a token whose
\* exp equals the current second is invalid.
C20_ExpiryBoundary ==
    (tokenMeta.origin = "signed" /\ PayloadExp(token) <= NowSec(clock)) =>
        /\ verifyResult # NotRun => verifyResult = Null
        /\ edgeResult # NotRun => ~edgeResult.valid


-----------------------------------------------------------------------------
(* Rate limiter: src/unnamed/part_001 (lib/auth/rateLimit)                 *)

\* rateLimitStore.get(key) is undefined
NoEntry(store, key) == key \notin DOMAIN store

\* entry.resetTime < now
WindowExpired(entry, now) == entry.resetTime < now

\* rateLimitStore.set(key, entry)
MapSet_LostUpdate(store, key, entry) ==
    IF key \in DOMAIN store /\ entry.count > 1 THEN store
    ELSE [k \in DOMAIN store \cup {key} |-> IF k = key THEN entry ELSE store[k]]
MapSet(store, key, entry) ==
    [k \in DOMAIN store \cup {key} |-> IF k = key THEN entry ELSE store[k]]

\* rateLimitStore.delete(key)
MapDelete(store, key) == [k \in DOMAIN store \ {key} |-> store[k]]

\* entry.count > config.maxRequests
OverLimit_OffByOne(entry, config) == entry.count > config.maxRequests + 1
OverLimit(entry, config) == entry.count > config.maxRequests

\* the store and the result after checkRateLimit(key, config) at time now
checkRateLimit(store, key, config, now) ==
    IF NoEntry(store, key) \/ WindowExpired(store[key], now)
    THEN [store |-> MapSet(store, key,
                           [count |-> 1, resetTime |-> now + config.windowMs]),
          allowed |-> TRUE,
          remaining |-> config.maxRequests - 1,
          resetIn |-> config.windowMs]
    ELSE LET entry == [store[key] EXCEPT !.count = @ + 1]
         IN IF OverLimit(entry, config)
            THEN [store |-> MapSet(store, key, entry),
                  allowed |-> FALSE,
                  remaining |-> 0,
                  resetIn |-> entry.resetTime - now]
            ELSE [store |-> MapSet(store, key, entry),
                  allowed |-> TRUE,
                  remaining |-> config.maxRequests - entry.count,
                  resetIn |-> entry.resetTime - now]

resetRateLimit_KeepEntry(store, key) == store
resetRateLimit(store, key) == MapDelete(store, key)

cleanup_Eager(store, now) ==
    [k \in {x \in DOMAIN store : ~(store[x].resetTime <= now)} |-> store[k]]
cleanup(store, now) ==
    [k \in {x \in DOMAIN store : ~(store[x].resetTime < now)} |-> store[k]]

-----------------------------------------------------------------------------
(* Specification of the rate limiter                                       *)

SelectSeq2(seq, from) == SelectSeq(seq, LAMBDA t : t >= from)

\* Ghost bookkeeping of the fixed windows, kept apart from the store: a call
\* opens a window when the key has none or when more than windowMs have
\* elapsed since the current one started; otherwise it is the next call of
\* the current window.
GhostAfterCall(g, config, now, allowed) ==
    LET fresh == ~g.open \/ now - g.start > config.windowMs
        recent == SelectSeq2(g.allowedAt, now - config.windowMs)
        add == IF allowed THEN 1 ELSE 0
    IN [open |-> TRUE,
        start |-> IF fresh THEN now ELSE g.start,
        idx |-> IF fresh THEN 1 ELSE g.idx + 1,
        admitted |-> IF fresh THEN add ELSE g.admitted + add,
        allowedAt |-> IF allowed THEN Append(recent, now) ELSE recent]

ClosedGhost == [open |-> FALSE, start |-> 0, idx |-> 0, admitted |-> 0,
                allowedAt |-> <<>>]

InitRate ==
    /\ clock = 0
    /\ jwtSecretEnv = ""
    /\ TokIdle
    /\ RlIdle
    /\ rlConfig \in [RlKeys -> RlConfigs]
    /\ SessIdle
    /\ RegIdle
    /\ AcctIdle

\* the model stops calling once a window has counted MaxCount calls
BelowMaxCount(key) ==
    IF NoEntry(rateLimitStore, key) THEN TRUE
    ELSE IF WindowExpired(rateLimitStore[key], clock) THEN TRUE
    ELSE rateLimitStore[key].count < MaxCount

CheckRateLimit(key) ==
    /\ BelowMaxCount(key)
    /\ LET r == checkRateLimit(rateLimitStore, key, rlConfig[key], clock)
       IN /\ rateLimitStore' = r.store
          /\ rlLast' = [key |-> key, allowed |-> r.allowed,
                        remaining |-> r.remaining, resetIn |-> r.resetIn]
          /\ rlGhost' = [rlGhost EXCEPT ![key] =
                             GhostAfterCall(@, rlConfig[key], clock, r.allowed)]
    /\ UNCHANGED <<extVars, clock, tokVars, rlConfig, sessVars, regs, acctVars>>

ResetRateLimit(key) ==
    /\ rateLimitStore' = resetRateLimit(rateLimitStore, key)
    /\ rlGhost' = [rlGhost EXCEPT ![key] = ClosedGhost]
    /\ rlLast' = NotRun
    /\ UNCHANGED <<extVars, clock, tokVars, rlConfig, sessVars, regs, acctVars>>

\* the setInterval sweep
Cleanup ==
    /\ rateLimitStore' = cleanup(rateLimitStore, clock)
    /\ rlLast' = NotRun
    /\ UNCHANGED <<extVars, clock, tokVars, rlConfig, rlGhost, sessVars, regs, acctVars>>

TickRate ==
    /\ clock < MaxRlClock
    /\ clock' = clock + 1
    /\ rlLast' = NotRun
    /\ UNCHANGED <<extVars, tokVars, rateLimitStore, rlConfig, rlGhost, sessVars, regs, acctVars>>

NextRate ==
    \/ \E key \in RlKeys : CheckRateLimit(key)
    \/ \E key \in RlKeys : ResetRateLimit(key)
    \/ Cleanup
    \/ TickRate

SpecRate == InitRate /\ [][NextRate]_vars

\* C4: with maxRequests = N >= 1 and windowMs = W and no resetRateLimit in
\* between, the 1st..N-th calls of a window are allowed with remaining =
\* N - count, the (N+1)-th and every later call of that window are refused
\* with remaining = 0, and the first call after W has elapsed since the
\* window started is allowed with remaining = N - 1 and starts a new window
\* of length W.
C4_FixedWindow ==
    rlLast # NotRun =>
        LET k == rlLast.key
            g == rlGhost[k]
            N == rlConfig[k].maxRequests
            W == rlConfig[k].windowMs
        IN /\ k \in DOMAIN rateLimitStore
           /\ rateLimitStore[k].count = g.idx
           /\ g.idx <= N => (rlLast.allowed /\ rlLast.remaining = N - g.idx)
           /\ g.idx > N => (~rlLast.allowed /\ rlLast.remaining = 0)
           /\ g.idx = 1 => (g.start = clock /\ rateLimitStore[k].resetTime = clock + W)
           /\ rateLimitStore[k].resetTime = g.start + W

\* a call beyond the (N+1)-th of its window has just been refused
C4_Witness ==
    /\ rlLast # NotRun
    /\ ~rlLast.allowed
    /\ rlGhost[rlLast.key].idx > rlConfig[rlLast.key].maxRequests + 1

\* the calls admitted for key k during the last windowMs
AdmittedRecently(k) ==
    Len(SelectSeq2(rlGhost[k].allowedAt, clock - rlConfig[k].windowMs))

\* C5: on one key with a fixed config and no resetRateLimit, at most
\* maxRequests calls are allowed within one window and at most
\* 2 x maxRequests within any time interval of length windowMs.
C5_AdmissionBound ==
    \A k \in RlKeys :
        /\ rlGhost[k].admitted <= rlConfig[k].maxRequests
        /\ AdmittedRecently(k) <= 2 * rlConfig[k].maxRequests

\* a burst straddling a window boundary: more than maxRequests admitted
\* calls lie within one interval of length windowMs
C5_Witness ==
    \E k \in RlKeys :
        /\ rlLast # NotRun /\ rlLast.key = k /\ rlLast.allowed
        /\ AdmittedRecently(k) > rlConfig[k].maxRequests

-----------------------------------------------------------------------------
(* Route guard: src/middleware.ts:78-125                                   *)

\* A pathname is the sequence of the pieces it is the concatenation of;
\* startsWith(route) is "the first piece is route", includes('.') is "some
\* piece holds a dot".
DottedPieces == {"/report.pdf", "/logo.png"}
Paths == {<<"/dashboard">>, <<"/dashboard", "/settings">>,
          <<"/dashboard", "/report.pdf">>,
          <<"/login">>, <<"/register">>, <<"/login", "/sso">>,
          <<"/">>, <<"/verify-email">>,
          <<"/api/auth", "/refresh">>, <<"/_next", "/chunk">>, <<"/logo.png">>}

protectedRoutes == {"/dashboard"}
authRoutes == {"/login", "/register"}
publicRoutes == {"/", "/verify-email", "/reset-password", "/forgot-password"}

startsWith(pathname, route) == pathname[1] = route
includesDot(pathname) == \E i \in 1..Len(pathname) : pathname[i] \in DottedPieces

\* the first test of middleware(): static files and the auth API
GuardSkips(pathname) ==
    \/ startsWith(pathname, "/_next")
    \/ startsWith(pathname, "/api/auth")
    \/ includesDot(pathname)

\* JS truthiness of payload.isVerified
Truthy(flag) == flag = "true"

RespNext == [op |-> "middleware", action |-> "next", location |-> "", redirect |-> <<>>]
RespRedirect(location, param) ==
    [op |-> "middleware", action |-> "redirect", location |-> location,
     redirect |-> param]

\* the guard of the earlier revision (src/unnamed/part_005:77-121), which
\* looks at the token's validity only
middleware_ValidityOnly(pathname, cookie, nowMs) ==
    IF GuardSkips(pathname) THEN RespNext
    ELSE LET isAuthenticated ==
                 IF cookie # <<>> THEN verifyTokenEdge(cookie, nowMs).valid ELSE FALSE
             isProtectedRoute == \E route \in protectedRoutes : startsWith(pathname, route)
             isAuthRoute == \E route \in authRoutes : startsWith(pathname, route)
         IN IF isProtectedRoute /\ ~isAuthenticated
            THEN RespRedirect("/login", pathname)
            ELSE IF isAuthRoute /\ isAuthenticated
            THEN RespRedirect("/dashboard", <<>>)
            ELSE RespNext

middleware(pathname, cookie, nowMs) ==
    IF GuardSkips(pathname) THEN RespNext
    ELSE LET tokenResult ==
                 IF cookie # <<>> THEN verifyTokenEdge(cookie, nowMs)
                 ELSE [valid |-> FALSE, isVerified |-> "false"]
             isAuthenticated == tokenResult.valid
             isProtectedRoute == \E route \in protectedRoutes : startsWith(pathname, route)
             isAuthRoute == \E route \in authRoutes : startsWith(pathname, route)
         IN IF isProtectedRoute /\ (~isAuthenticated \/ ~Truthy(tokenResult.isVerified))
            THEN RespRedirect("/login", pathname)
            ELSE IF isAuthRoute /\ isAuthenticated /\ Truthy(tokenResult.isVerified)
            THEN RespRedirect("/dashboard", <<>>)
            ELSE RespNext

-----------------------------------------------------------------------------
(* Users collection: src/lib/models/User.ts                                *)

Emails == {"a@x.io", "A@x.io", "b@x.io", "c@x.io"}
toLowerCase(e) == IF e = "A@x.io" THEN "a@x.io" ELSE e

\* bcrypt.hash / bcrypt.compare (salts left out)
bcryptHash(password) == [bcrypt |-> password]
comparePassword_AnyPassword(user, candidatePassword) == TRUE
comparePassword(user, candidatePassword) == user.password = bcryptHash(candidatePassword)

\* findOne({ email }): the _id of the document with that email, if any
findOneByEmail(coll, email) == {id \in DOMAIN coll : coll[id].email = email}

\* crypto.createHash('sha256').update(token).digest('hex') (part_003:89-92)
hashToken_Identity(tok) == tok
hashToken(tok) == [sha256 |-> tok]

NewUser(name, email, password, verificationToken) ==
    [name |-> name, email |-> email, password |-> bcryptHash(password),
     role |-> "user", isVerified |-> FALSE,
     verificationToken |-> verificationToken,
     resetPasswordToken |-> <<>>, resetPasswordExpires |-> <<>>,
     lastLoginAt |-> <<>>]

\* the accounts of the session specification: one verified, one not
SeedUsers ==
    [id \in {"u1", "u2"} |->
        IF id = "u1"
        THEN [NewUser("Ann", "a@x.io", "password-1", <<>>) EXCEPT !.isVerified = TRUE]
        ELSE NewUser("Bob", "b@x.io", "password-2", <<hashToken([random |-> 0])>>)]

-----------------------------------------------------------------------------
(* Session issuer: part_000:130-192, the login route (part_010:138-270),   *)
(* the refresh and logout routes (app/api/auth/refresh/route.ts)           *)

\* JWT_EXPIRES_IN / JWT_REFRESH_EXPIRES_IN as the environment sets them
JWT_EXPIRES_IN == [value |-> 1, unit |-> "s"]
JWT_REFRESH_EXPIRES_IN == [value |-> 2, unit |-> "s"]

signAccessToken(payload, nowMs) == signToken(payload, JWT_EXPIRES_IN, nowMs)
signRefreshToken(payload, nowMs) == signToken(payload, JWT_REFRESH_EXPIRES_IN, nowMs)

\* RATE_LIMIT_CONFIGS.login
LoginConfig == [windowMs |-> 15 * 60 * 1000, maxRequests |-> 5]
\* `${endpoint}:${identifier}`
getRateLimitKey(identifier, endpoint) == <<endpoint, identifier>>

\* Math.ceil(resetIn / 1000)
CeilSec(ms) == (ms + MsPerSec - 1) \div MsPerSec

Passwords == {"", "password-1", "password-2"}

JsBool(b) == IF b THEN "true" ELSE "false"

\* the payload a token string carries (its second segment, decoded)
PayloadOf(tok) == tok[2].text.val

NoResponse == [op |-> "none"]

\* a token string as signToken builds it under the server's secret
IsIssued(tok) ==
    /\ Len(tok) = 3
    /\ tok[1] = base64urlEncode(JSONstringify(Header))
    /\ tok[2].kind = "b64"
    /\ tok[2].text.kind = "json"
    /\ IsObject(tok[2].text.val)
    /\ tok[3] = createSignature(<<tok[1], tok[2]>>, JWT_SECRET)

\* user.isVerified, the gate of part_010:211
IsVerifiedUser_Skip(user) == TRUE
IsVerifiedUser(user) == user.isVerified

\* what POST /api/auth/login answers, before any state is written
LoginOutcome(rl, email, password) ==
    IF ~rl.allowed
    THEN [status |-> 429, errors |-> "none", requiresVerification |-> FALSE,
          retryAfter |-> CeilSec(rl.resetIn), user |-> ""]
    ELSE IF email = "" \/ password = ""
    THEN [status |-> 400, errors |-> IF email = "" THEN "email" ELSE "password",
          requiresVerification |-> FALSE, retryAfter |-> 0, user |-> ""]
    ELSE LET found == findOneByEmail(users, toLowerCase(email))
         IN IF found = {}
            THEN [status |-> 401, errors |-> "email", requiresVerification |-> FALSE,
                  retryAfter |-> 0, user |-> ""]
            ELSE LET id == CHOOSE x \in found : TRUE
                 IN IF ~comparePassword(users[id], password)
                    THEN [status |-> 401, errors |-> "password",
                          requiresVerification |-> FALSE, retryAfter |-> 0, user |-> id]
                    ELSE IF ~IsVerifiedUser(users[id])
                    THEN [status |-> 403, errors |-> "email",
                          requiresVerification |-> TRUE, retryAfter |-> 0, user |-> id]
                    ELSE [status |-> 200, errors |-> "none",
                          requiresVerification |-> FALSE, retryAfter |-> 0, user |-> id]

LoginBelowCap(key) ==
    IF NoEntry(rateLimitStore, key) THEN TRUE
    ELSE rateLimitStore[key].count < MaxLoginCount

\* POST /api/auth/login
Login(ip, email, password) ==
    LET key == getRateLimitKey(ip, "login")
        rl == checkRateLimit(rateLimitStore, key, LoginConfig, clock)
        out == LoginOutcome(rl, email, password)
        ok == out.status = 200
        tokenPayload ==
            [userId |-> out.user, email |-> users[out.user].email,
             role |-> users[out.user].role,
             isVerified |-> JsBool(users[out.user].isVerified)]
    IN /\ LoginBelowCap(key)
       /\ rateLimitStore' = IF ok THEN resetRateLimit(rl.store, key) ELSE rl.store
       /\ users' = IF ok THEN [users EXCEPT ![out.user].lastLoginAt = <<clock>>]
                   ELSE users
       /\ accessCookie' = IF ok THEN signAccessToken(tokenPayload, clock)
                          ELSE accessCookie
       /\ refreshCookie' = IF ok THEN signRefreshToken(tokenPayload, clock)
                           ELSE refreshCookie
       /\ lastResponse' = [op |-> "login", status |-> out.status,
                           errors |-> out.errors,
                           requiresVerification |-> out.requiresVerification,
                           retryAfter |-> out.retryAfter, setCookies |-> ok,
                           ip |-> ip, email |-> email, password |-> password,
                           remaining |-> rl.remaining]
       /\ UNCHANGED <<extVars, clock, tokVars, rlConfig, rlGhost, rlLast, regs, acctVars>>

\* POST /api/auth/refresh (app/api/auth/refresh/route.ts:16-63)
Refresh ==
    LET decoded == IF refreshCookie = <<>> THEN Null
                   ELSE verifyToken(refreshCookie, clock)
        ok == decoded # Null
        tokenPayload == [userId |-> decoded.userId, email |-> decoded.email,
                         role |-> decoded.role, isVerified |-> "undefined"]
    IN /\ accessCookie' = IF ok THEN signAccessToken(tokenPayload, clock)
                          ELSE accessCookie
       /\ refreshCookie' = IF ok THEN signRefreshToken(tokenPayload, clock)
                           ELSE refreshCookie
       /\ lastResponse' = [op |-> "refresh", status |-> IF ok THEN 200 ELSE 401,
                           setCookies |-> ok, presented |-> refreshCookie,
                           accessBefore |-> accessCookie]
       /\ UNCHANGED <<extVars, clock, tokVars, rlVars, users, regs, acctVars>>

\* POST /api/auth/logout (app/api/auth/refresh/route.ts:74-90)
Logout ==
    /\ accessCookie' = <<>>
    /\ refreshCookie' = <<>>
    /\ lastResponse' = [op |-> "logout", status |-> 200]
    /\ UNCHANGED <<extVars, clock, tokVars, rlVars, users, regs, acctVars>>

\* any page or API request passing through the guard
GuardRequest(pathname) ==
    /\ lastResponse' = [middleware(pathname, accessCookie, clock)
                           EXCEPT !.op = "middleware"] @@ [pathname |-> pathname]
    /\ UNCHANGED <<extVars, clock, tokVars, rlVars, users, accessCookie, refreshCookie, regs, acctVars>>

SessionTamperKinds == {"oneSegment", "wrongSignature", "alterPayload",
                       "emptyHeaderResigned", "edgeFallbackResigned"}

\* the client presents an altered cookie in place of the one it was given
TamperCookie(which, kind) ==
    /\ IsIssued(accessCookie)
    /\ IsIssued(refreshCookie)
    /\ IF which = "access"
       THEN /\ accessCookie' = Tampered(accessCookie, kind)
            /\ UNCHANGED refreshCookie
       ELSE /\ refreshCookie' = Tampered(refreshCookie, kind)
            /\ UNCHANGED accessCookie
    /\ lastResponse' = NoResponse
    /\ UNCHANGED <<extVars, clock, tokVars, rlVars, users, regs, acctVars>>

AdvanceClockSession(t) ==
    /\ t > clock
    /\ clock' = t
    /\ lastResponse' = NoResponse
    /\ UNCHANGED <<extVars, tokVars, rlVars, users, accessCookie, refreshCookie, regs, acctVars>>

InitSession ==
    /\ clock = 0
    /\ jwtSecretEnv \in SecretsEnv
    /\ TokIdle
    /\ RlIdle
    /\ rlConfig = [k \in RlKeys |-> LoginConfig]
    /\ users = SeedUsers
    /\ accessCookie = <<>>
    /\ refreshCookie = <<>>
    /\ lastResponse = NoResponse
    /\ RegIdle
    /\ AcctIdle

NextSession ==
    \/ \E email \in {"a@x.io", "A@x.io"} : Login("ip1", email, "password-1")
    \/ Refresh
    \/ Logout
    \/ \E pathname \in Paths : GuardRequest(pathname)
    \/ \E which \in {"access", "refresh"}, kind \in SessionTamperKinds :
           TamperCookie(which, kind)
    \/ \E t \in TimePoints : AdvanceClockSession(t)

SpecSession == InitSession /\ [][NextSession]_vars

\* the state the guard puts a request in (spec 4.4), by its own verifier
GuardState(cookie, nowMs) ==
    IF cookie = <<>> THEN "Anonymous"
    ELSE LET r == verifyTokenEdge(cookie, nowMs)
         IN IF ~r.valid THEN "Anonymous"
            ELSE IF r.isVerified = "true" THEN "Verified"
            ELSE "Unverified"

IsProtectedPath(pathname) == pathname[1] = "/dashboard"
IsAuthOnlyPath(pathname) == pathname[1] \in {"/login", "/register"}
IsPublicPath(pathname) == Len(pathname) = 1 /\ pathname[1] \in publicRoutes
IsAuthApiOrAsset(pathname) ==
    \/ pathname[1] \in {"/api/auth", "/_next"}
    \/ \E i \in 1..Len(pathname) : pathname[i] \in DottedPieces

\* C6: every request to a path starting with /dashboard is redirected to
\* /login?redirect=<path> when it carries no access_token cookie, a token
\* that fails verification or a valid token whose verified flag is not
\* true, and passes through when the token is valid and verified.
C6_ProtectedGuard ==
    (lastResponse.op = "middleware" /\ IsProtectedPath(lastResponse.pathname)) =>
        IF GuardState(accessCookie, clock) = "Verified"
        THEN lastResponse.action = "next"
        ELSE /\ lastResponse.action = "redirect"
             /\ lastResponse.location = "/login"
             /\ lastResponse.redirect = lastResponse.pathname

\* C7: an AuthOnly route (/login, /register) is allowed to an Anonymous or
\* Unverified caller and redirected to /dashboard only for a valid verified
\* token; a Public route is allowed in all three states; requests to the
\* auth API namespace and to static assets are never redirected.
C7_AuthOnlyAndPublic ==
    lastResponse.op = "middleware" =>
        LET pathname == lastResponse.pathname
            state == GuardState(accessCookie, clock)
        IN /\ IsAuthOnlyPath(pathname) =>
                /\ state \in {"Anonymous", "Unverified"} => lastResponse.action = "next"
                /\ lastResponse.action = "redirect" =>
                       (lastResponse.location = "/dashboard" /\ state = "Verified")
                /\ (state = "Verified" /\ ~IsAuthApiOrAsset(pathname)) =>
                       (lastResponse.action = "redirect"
                        /\ lastResponse.location = "/dashboard")
           /\ IsPublicPath(pathname) => lastResponse.action = "next"
           /\ IsAuthApiOrAsset(pathname) => lastResponse.action = "next"

\* a verified session asking for /login is sent to the dashboard
C7_Witness ==
    /\ lastResponse.op = "middleware"
    /\ lastResponse.pathname = <<"/login">>
    /\ GuardState(accessCookie, clock) = "Verified"
    /\ lastResponse.action = "redirect"

\* C8: a successful refresh sets a new access and a new refresh cookie whose
\* identity claims (subject id, email, role, verified flag) equal those of
\* the presented refresh token, so a session allowed on Protected routes
\* before the refresh is still allowed with the refreshed access token.
C8_RefreshPreservesIdentity ==
    (lastResponse.op = "refresh" /\ lastResponse.status = 200) =>
        /\ lastResponse.setCookies
        /\ IsIssued(accessCookie) /\ IsIssued(refreshCookie)
        /\ ClaimsOf(PayloadOf(accessCookie)) = ClaimsOf(PayloadOf(lastResponse.presented))
        /\ ClaimsOf(PayloadOf(refreshCookie)) = ClaimsOf(PayloadOf(lastResponse.presented))
        /\ middleware(<<"/dashboard">>, lastResponse.accessBefore, clock).action = "next"
               => middleware(<<"/dashboard">>, accessCookie, clock).action = "next"

\* the payload of tok cannot be decoded to an object
Undecodable(tok) ==
    \/ tok[2].kind # "b64"
    \/ tok[2].text.kind # "json"
    \/ ~IsObject(tok[2].text.val)

\* spec 4.1(c): the expiry timestamp is at or before the current time
ExpiredAtOrBefore(tok, nowMs) == PayloadOf(tok).exp <= NowSec(nowMs)

\* C9: a refresh request with no refresh cookie, or with a refresh token
\* that is malformed, wrongly signed or expired, is answered 401 and sets
\* no cookies.
C9_RefreshFailure ==
    LET tok == lastResponse.presented
        bad == IF tok = <<>> THEN TRUE
               ELSE IF ~WellFormed(tok) THEN TRUE
               ELSE IF Undecodable(tok) THEN TRUE
               ELSE ExpiredAtOrBefore(tok, clock)
    IN (lastResponse.op = "refresh" /\ bad) =>
           (lastResponse.status = 401 /\ ~lastResponse.setCookies)

-----------------------------------------------------------------------------
(* Registration: POST /api/auth/register (app/api/auth/register/route.ts).  *)
(* The handler awaits the database twice, at User.findByEmail and at         *)
(* User.create; between the two awaits other requests run.                   *)

\* RATE_LIMIT_CONFIGS.register
RegisterConfig == [windowMs |-> 60 * 60 * 1000, maxRequests |-> 3]

\* request bodies: three that pass every validation (two of them spell the
\* same address in different case), and one per validation that fails
RegInputs ==
    { [name |-> "Ann", email |-> "a@x.io", password |-> "password-1"],
      [name |-> "Ann", email |-> "A@x.io", password |-> "password-1"],
      [name |-> "Bob", email |-> "b@x.io", password |-> "password-2"],
      [name |-> "", email |-> "c@x.io", password |-> "password-1"],
      [name |-> "Ann", email |-> "not-an-email", password |-> "password-1"],
      [name |-> "Ann", email |-> "c@x.io", password |-> "short"],
      [name |-> "A", email |-> "c@x.io", password |-> "password-1"] }

\* /^[^\s@]+@[^\s@]+\.[^\s@]+$/.test(email)
emailRegexTest(email) == email \in Emails

\* String.prototype.length of the texts of the model
StrLen(str) ==
    IF str = "" THEN 0
    ELSE IF str = "A" THEN 1
    ELSE IF str \in {"Ann", "Bob"} THEN 3
    ELSE IF str = "short" THEN 5
    ELSE 10

\* the checks of the handler before it touches the collection:
\* the field in error, or "none"
RouteValidation(name, email, password) ==
    IF name = "" THEN "name"
    ELSE IF email = "" THEN "email"
    ELSE IF password = "" THEN "password"
    ELSE IF ~emailRegexTest(email) THEN "email"
    ELSE IF StrLen(password) < 8 THEN "password"
    ELSE "none"

\* the validators of UserSchema that User.create runs before the insert
SchemaValid(name, email, password) ==
    /\ StrLen(name) >= 2 /\ StrLen(name) <= 50
    /\ emailRegexTest(email)
    /\ StrLen(password) >= 8

\* UserSchema.statics.findByEmail
findByEmail(coll, email) == findOneByEmail(coll, toLowerCase(email))

\* the unique index on email: the insert fails with code 11000
DuplicateKey_NoIndex(coll, email) == FALSE
DuplicateKey(coll, email) == findOneByEmail(coll, email) # {}

\* the _id the database gives the document of request r
ObjectIdOf(r) == <<"oid", r>>
\* crypto.randomBytes(32).toString('hex'): the n-th draw
generateToken(n) == [random |-> n]
\* sendEmail retries once when the transport fails
sendEmail_Retry(transport, mail) ==
    [ok |-> transport # "down",
     delivered |-> IF transport = "up" THEN {mail} ELSE {},
     attempts |-> IF transport = "none" THEN 0 ELSE IF transport = "up" THEN 1 ELSE 2]

\* sendEmail (part_003:40-76): without SMTP configuration nothing is sent
\* and true is returned; otherwise transporter.sendMail is called once and
\* a failure is caught, logged and reported as false
sendEmail(transport, mail) ==
    [ok |-> transport # "down",
     delivered |-> IF transport = "up" THEN {mail} ELSE {},
     attempts |-> IF transport = "none" THEN 0 ELSE 1]

\* sendEmail({ to, ... }) with the raw token in the link
Mail(kind, to, tok) == [kind |-> kind, to |-> to, token |-> tok]

RegDone(req, status, errors, via, cookies) ==
    [req EXCEPT !.pc = "done", !.status = status, !.errors = errors,
                !.via = via, !.cookies = cookies]

\* lines 24-90: rate limit, body, field validation
RegStart(r, ip, body) ==
    LET key == getRateLimitKey(ip, "register")
        rl == checkRateLimit(rateLimitStore, key, RegisterConfig, clock)
        bad == RouteValidation(body.name, body.email, body.password)
        req == [regs[r] EXCEPT !.name = body.name, !.email = body.email,
                               !.password = body.password]
    IN /\ regs[r].pc = "idle"
       /\ rateLimitStore' = rl.store
       /\ regs' = [regs EXCEPT ![r] =
             IF ~rl.allowed THEN RegDone(req, 429, "none", "rateLimit", <<>>)
             ELSE IF bad # "none" THEN RegDone(req, 400, bad, "validation", <<>>)
             ELSE [req EXCEPT !.pc = "find"]]
       /\ UNCHANGED <<extVars, clock, tokVars, rlConfig, rlGhost, rlLast, sessVars, acctVars>>

\* lines 92-103: await User.findByEmail(email)
RegFind(r) ==
    /\ regs[r].pc = "find"
    /\ regs' = [regs EXCEPT ![r] =
          IF findByEmail(users, regs[r].email) # {}
          THEN RegDone(regs[r], 409, "email", "existingUser", <<>>)
          ELSE [regs[r] EXCEPT !.pc = "create"]]
    /\ UNCHANGED <<extVars, clock, tokVars, rlVars, sessVars, acctVars>>

\* lines 105-183: await User.create(...), the e-mail, the tokens, the
\* response, and the catch block
RegCreate(r) ==
    LET req == regs[r]
        email == toLowerCase(req.email)
        id == ObjectIdOf(r)
        verificationToken == generateToken(nonce)
        user == NewUser(req.name, email, req.password,
                        <<hashToken(verificationToken)>>)
        tokenPayload == [userId |-> id, email |-> user.email,
                         role |-> user.role, isVerified |-> "undefined"]
        invalid == ~SchemaValid(req.name, email, req.password)
        dup == DuplicateKey(users, email)
        sent == sendEmail(smtp, Mail("verify", req.email, verificationToken))
    IN /\ req.pc = "create"
       /\ users' = IF invalid \/ dup THEN users
                   ELSE [x \in DOMAIN users \cup {id} |->
                            IF x = id THEN user ELSE users[x]]
       /\ regs' = [regs EXCEPT ![r] =
             IF invalid THEN RegDone(req, 400, "general", "ValidationError", <<>>)
             ELSE IF dup THEN RegDone(req, 409, "email", "duplicateKey", <<>>)
             ELSE RegDone(req, 201, "none", "created",
                          <<signAccessToken(tokenPayload, clock),
                            signRefreshToken(tokenPayload, clock)>>)]
       /\ nonce' = IF invalid THEN nonce ELSE nonce + 1
       /\ mailbox' = IF invalid \/ dup THEN mailbox
                     ELSE mailbox \cup sent.delivered
       /\ sendAttempts' = IF invalid \/ dup THEN sendAttempts
                          ELSE sendAttempts + sent.attempts
       /\ UNCHANGED <<restVars, clock, tokVars, rlVars, accessCookie, refreshCookie,
                      lastResponse, held, lastReset>>

\* the register window of the address before the requests: fresh, or with
\* two or three registrations already counted in the running hour
RegCountsBefore == {0, 2, 3}
RegStores ==
    { IF c = 0 THEN <<>>
      ELSE [k \in {getRateLimitKey("ip1", "register")} |->
               [count |-> c, resetTime |-> RegisterConfig.windowMs]] :
      c \in RegCountsBefore }

\* the collection before the requests: empty, or holding Bob's account
RegUsers ==
    { <<>>,
      [x \in {ObjectIdOf(0)} |->
          NewUser("Bob", "b@x.io", "password-2", <<hashToken(generateToken(0))>>)] }

InitReg ==
    /\ clock = 0
    /\ jwtSecretEnv \in SecretsEnv
    /\ TokIdle
    /\ rateLimitStore \in RegStores
    /\ rlConfig = [k \in RlKeys |-> RegisterConfig]
    /\ rlGhost = [k \in RlKeys |-> [open |-> FALSE, start |-> 0, idx |-> 0,
                                    admitted |-> 0, allowedAt |-> <<>>]]
    /\ rlLast = NotRun
    /\ users \in RegUsers
    /\ accessCookie = <<>>
    /\ refreshCookie = <<>>
    /\ lastResponse = NoResponse
    /\ RegIdle
    /\ AcctIdle

NextReg ==
    \/ \E r \in Reqs, body \in RegInputs : RegStart(r, "ip1", body)
    \/ \E r \in Reqs : RegFind(r)
    \/ \E r \in Reqs : RegCreate(r)

SpecReg == InitReg /\ [][NextReg]_vars

\* a request that passes every validation and the rate limit
RegWellFormed(r) ==
    /\ regs[r].pc # "idle"
    /\ regs[r].via # "rateLimit"
    /\ RouteValidation(regs[r].name, regs[r].email, regs[r].password) = "none"
    /\ SchemaValid(regs[r].name, toLowerCase(regs[r].email), regs[r].password)

RegSameEmail(e) == {r \in Reqs : RegWellFormed(r) /\ toLowerCase(regs[r].email) = e}
RegAnswered(e, status) ==
    {r \in RegSameEmail(e) : regs[r].pc = "done" /\ regs[r].status = status}
LowerEmails == {toLowerCase(e) : e \in Emails}
\* the accounts that existed before any of the requests
RegUsersBefore == [x \in DOMAIN users \ {ObjectIdOf(r) : r \in Reqs} |-> users[x]]

\* C10: whatever the interleaving of the well-formed, non-rate-limited
\* registration requests, there is at most one user record per lower-cased
\* email; every such request that has been answered got 201 or 409 with
\* errors.email (never 500); and once all those for an address that was free
\* are answered, exactly one of them got 201 and the others 409.
C10_RegistrationUniqueness ==
    \A e \in LowerEmails :
        /\ Cardinality(findOneByEmail(users, e)) <= 1
        /\ \A id \in DOMAIN users : users[id].email = toLowerCase(users[id].email)
        /\ \A r \in RegSameEmail(e) :
              regs[r].pc = "done" =>
                 \/ regs[r].status = 201 /\ regs[r].cookies # <<>>
                 \/ regs[r].status = 409 /\ regs[r].errors = "email"
                                         /\ regs[r].cookies = <<>>
        /\ Cardinality(RegAnswered(e, 201)) <= 1
        /\ (RegSameEmail(e) # {} /\ \A r \in RegSameEmail(e) : regs[r].pc = "done") =>
              Cardinality(RegAnswered(e, 201)) =
                 (IF findOneByEmail(RegUsersBefore, e) = {} THEN 1 ELSE 0)

\* two requests with the same address in different case both passed the
\* lookup; one created the account, the other hit the unique index
C10_Witness ==
    \E r1, r2 \in Reqs :
        /\ r1 # r2
        /\ regs[r1].email = "a@x.io" /\ regs[r2].email = "A@x.io"
        /\ {regs[r1].via, regs[r2].via} = {"created", "duplicateKey"}
        /\ {regs[r1].status, regs[r2].status} = {201, 409}

\* the requests that have gone through checkRateLimit, and those it allowed
RegChecked == {r \in Reqs : regs[r].pc # "idle"}
RegAllowed == {r \in RegChecked : regs[r].via # "rateLimit"}
RegCount ==
    IF NoEntry(rateLimitStore, getRateLimitKey("ip1", "register")) THEN 0
    ELSE rateLimitStore[getRateLimitKey("ip1", "register")].count
Min(a, b) == IF a < b THEN a ELSE b

\* C19: for k requests with the same key processed concurrently inside one
\* window, the stored count has grown by exactly k and the number of them
\* reported allowed is exactly min(k, quota that remained before them).
C19_NoLostUpdates ==
    LET k == Cardinality(RegChecked)
        before == RegCount - k
        quota == IF before >= RegisterConfig.maxRequests THEN 0
                 ELSE RegisterConfig.maxRequests - before
    IN /\ before \in RegCountsBefore
       /\ Cardinality(RegAllowed) = Min(k, quota)

\* while one allowed request is still between its database awaits, another
\* request on the same key has been counted and refused
C19_Witness ==
    \E r1, r2 \in Reqs :
        /\ regs[r1].pc \in {"find", "create"}
        /\ regs[r2].via = "rateLimit"
        /\ RegCount = 4

-----------------------------------------------------------------------------
(* Account recovery and e-mail verification: the forgot-password and        *)
(* reset-password routes, and verify-email / resend (part_010:12-117).      *)

\* RATE_LIMIT_CONFIGS.passwordReset
PasswordResetConfig == [windowMs |-> 60 * 60 * 1000, maxRequests |-> 3]
\* new Date(Date.now() + 60 * 60 * 1000)
ResetTokenTtlMs == 60 * 60 * 1000

MaxNonce == 2
MaxForgotCount == 4

\* a missing or empty token parameter, and a token the server never drew
NoToken == [empty |-> TRUE]
GuessedToken == [random |-> 0 - 1]

\* the _id of the document a query matched (at most one here), as a set
TheOne(found) == CHOOSE x \in found : TRUE

\* findOne without the expiry condition
findByResetToken_NoExpiry(coll, hashedToken, now) ==
    {id \in DOMAIN coll : coll[id].resetPasswordToken = <<hashedToken>>}

\* findOne({ resetPasswordToken: hashedToken, resetPasswordExpires: { $gt: now } })
findByResetToken(coll, hashedToken, now) ==
    {id \in DOMAIN coll :
        /\ coll[id].resetPasswordToken = <<hashedToken>>
        /\ coll[id].resetPasswordExpires # <<>>
        /\ coll[id].resetPasswordExpires[1] > now}

\* findOne that also refuses once the advisory 24 hours have passed
findByVerificationToken_Lifetime(coll, hashedToken) ==
    IF clock > 24 * 60 * 60 * 1000 THEN {}
    ELSE {id \in DOMAIN coll : coll[id].verificationToken = <<hashedToken>>}

\* findOne({ verificationToken: hashedToken })
findByVerificationToken(coll, hashedToken) ==
    {id \in DOMAIN coll : coll[id].verificationToken = <<hashedToken>>}

\* successResponse.message: the same text with or without an account
ForgotMessage_Reveal(found) ==
    IF found = {} THEN "No account with that email" ELSE "If an account exists"
ForgotMessage(found) == "If an account exists"

ForgotBelowCap(key) ==
    IF NoEntry(rateLimitStore, key) THEN TRUE
    ELSE rateLimitStore[key].count < MaxForgotCount

\* POST /api/auth/forgot-password
ForgotPassword(ip, email) ==
    LET key == getRateLimitKey(ip, "passwordReset")
        rl == checkRateLimit(rateLimitStore, key, PasswordResetConfig, clock)
        found == findOneByEmail(users, toLowerCase(email))
        mint == rl.allowed /\ email # "" /\ found # {}
        id == TheOne(found)
        resetToken == generateToken(nonce)
    IN /\ ForgotBelowCap(key)
       /\ (mint => nonce < MaxNonce)
       /\ rateLimitStore' = rl.store
       /\ users' = IF mint
                   THEN [users EXCEPT
                            ![id].resetPasswordToken = <<hashToken(resetToken)>>,
                            ![id].resetPasswordExpires = <<clock + ResetTokenTtlMs>>]
                   ELSE users
       /\ nonce' = IF mint THEN nonce + 1 ELSE nonce
       /\ mailbox' = IF mint
                     THEN mailbox \cup
                          sendEmail(smtp, Mail("reset", users[id].email, resetToken)).delivered
                     ELSE mailbox
       /\ sendAttempts' = IF mint
                          THEN sendAttempts +
                               sendEmail(smtp, Mail("reset", users[id].email, resetToken)).attempts
                          ELSE sendAttempts
       /\ lastResponse' =
             [op |-> "forgot", ip |-> ip, email |-> email,
              status |-> IF ~rl.allowed THEN 429 ELSE IF email = "" THEN 400 ELSE 200,
              success |-> rl.allowed /\ email # "",
              message |-> IF ~rl.allowed THEN "Too many requests"
                          ELSE IF email = "" THEN "Email is required"
                          ELSE ForgotMessage(found),
              retryAfter |-> IF ~rl.allowed THEN CeilSec(rl.resetIn) ELSE 0]
       /\ UNCHANGED <<restVars, clock, tokVars, rlConfig, rlGhost, rlLast, accessCookie,
                      refreshCookie, regs, held, lastReset>>

\* what POST /api/auth/reset-password answers: the field in error, or "none"
ResetOutcome(tok, password) ==
    IF tok = NoToken THEN "token"
    ELSE IF password = "" THEN "password"
    ELSE IF StrLen(password) < 8 THEN "password"
    ELSE IF findByResetToken(users, hashToken(tok), clock) = {} THEN "token"
    ELSE "none"

\* POST /api/auth/reset-password
ResetPassword(tok, password) ==
    LET bad == ResetOutcome(tok, password)
        id == TheOne(findByResetToken(users, hashToken(tok), clock))
    IN /\ users' = IF bad # "none" THEN users
                   ELSE [users EXCEPT ![id].password = bcryptHash(password),
                                      ![id].resetPasswordToken = <<>>,
                                      ![id].resetPasswordExpires = <<>>]
       /\ lastReset' = IF bad # "none" THEN lastReset
                       ELSE <<[user |-> id, new |-> password,
                               oldHash |-> users[id].password]>>
       /\ lastResponse' = [op |-> "reset", token |-> tok, password |-> password,
                           status |-> IF bad = "none" THEN 200 ELSE 400,
                           errors |-> bad]
       /\ UNCHANGED <<extVars, clock, tokVars, rlVars, accessCookie, refreshCookie, regs,
                      mailbox, nonce, held>>

\* GET /api/auth/verify-email?token=...
VerifyEmail(tok) ==
    LET found == IF tok = NoToken THEN {}
                 ELSE findByVerificationToken(users, hashToken(tok))
        id == TheOne(found)
    IN /\ users' = IF found = {} THEN users
                   ELSE [users EXCEPT ![id].isVerified = TRUE,
                                      ![id].verificationToken = <<>>]
       /\ lastResponse' = [op |-> "verify", token |-> tok,
                           status |-> IF found = {} THEN 400 ELSE 200]
       /\ UNCHANGED <<extVars, clock, tokVars, rlVars, accessCookie, refreshCookie, regs,
                      acctVars>>

\* POST /api/auth/verify-email (resend)
ResendVerification(email) ==
    LET found == findOneByEmail(users, toLowerCase(email))
        id == TheOne(found)
        mint == email # "" /\ found # {} /\ ~users[id].isVerified
        verificationToken == generateToken(nonce)
    IN /\ (mint => nonce < MaxNonce)
       /\ users' = IF mint
                   THEN [users EXCEPT
                            ![id].verificationToken = <<hashToken(verificationToken)>>]
                   ELSE users
       /\ nonce' = IF mint THEN nonce + 1 ELSE nonce
       /\ mailbox' = IF mint
                     THEN mailbox \cup
                          sendEmail(smtp, Mail("verify", users[id].email,
                                               verificationToken)).delivered
                     ELSE mailbox
       /\ sendAttempts' = IF mint
                          THEN sendAttempts +
                               sendEmail(smtp, Mail("verify", users[id].email,
                                                    verificationToken)).attempts
                          ELSE sendAttempts
       /\ lastResponse' =
             [op |-> "resend", email |-> email,
              status |-> IF email = "" THEN 400 ELSE 200,
              message |-> IF email = "" THEN "Email is required"
                          ELSE IF found = {} THEN "If an account exists"
                          ELSE IF users[id].isVerified THEN "already verified"
                          ELSE "Verification email sent"]
       /\ UNCHANGED <<restVars, clock, tokVars, rlVars, accessCookie, refreshCookie, regs,
                      held, lastReset>>

\* the raw tokens that were e-mailed
MailedTokens == {m.token : m \in mailbox}
PresentedTokens == MailedTokens \cup {GuessedToken, NoToken}
\* the values held in the token fields of the collection
StoredTokens ==
    UNION {{users[id].verificationToken[i] : i \in DOMAIN users[id].verificationToken}
           \cup {users[id].resetPasswordToken[i] : i \in DOMAIN users[id].resetPasswordToken} :
           id \in DOMAIN users}

AccountTimes == {0, ResetTokenTtlMs, ResetTokenTtlMs + 1000}

MaxAccountLogins == 2
\* fewer than MaxAccountLogins login requests counted in the running window
FewLogins(ip) ==
    IF NoEntry(rateLimitStore, getRateLimitKey(ip, "login")) THEN TRUE
    ELSE rateLimitStore[getRateLimitKey(ip, "login")].count < MaxAccountLogins

AdvanceClockAccount(t) ==
    /\ t > clock
    /\ clock' = t
    /\ lastResponse' = NoResponse
    /\ UNCHANGED <<extVars, tokVars, rlVars, users, accessCookie, refreshCookie, regs,
                   acctVars>>

InitAccount ==
    /\ clock = 0
    /\ jwtSecretEnv = "k1"
    /\ TokIdle
    /\ RlIdle
    /\ rlConfig = [k \in RlKeys |-> LoginConfig]
    /\ users = SeedUsers
    /\ accessCookie = <<>>
    /\ refreshCookie = <<>>
    /\ lastResponse = NoResponse
    /\ RegIdle
    /\ mailbox = {Mail("verify", "b@x.io", generateToken(0))}
    /\ nonce = 1
    /\ held = <<>>
    /\ lastReset = <<>>
    /\ ExtIdle

\* requests of the recovery flow followed by logins
AccountLogins ==
    { <<"a@x.io", "password-1">>, <<"a@x.io", "password-3">>,
      <<"b@x.io", "password-2">>, <<"b@x.io", "password-3">> }

NextAccount ==
    \/ \E email \in {"A@x.io", "b@x.io", "c@x.io", ""} : ForgotPassword("ip1", email)
    \/ \E tok \in PresentedTokens, password \in {"password-3", "short", ""} :
           ResetPassword(tok, password)
    \/ \E cred \in AccountLogins :
           FewLogins("ip1") /\ Login("ip1", cred[1], cred[2])
    \/ \E t \in AccountTimes : AdvanceClockAccount(t)

SpecAccount == InitAccount /\ [][NextAccount]_vars

\* the account a forgot-password request names, if any
ForgotTarget(email) == findOneByEmail(users, toLowerCase(email))

\* C11: every non-rate-limited forgot-password request with a non-empty
\* email gets status 200 and the same body whether or not an account with
\* that email exists; a reset-token hash with its expiry is stored and a
\* reset e-mail sent only when the account exists, and the user store is
\* unchanged when it does not.
C11_ForgotAntiEnumeration ==
    [][(lastResponse'.op = "forgot" /\ lastResponse'.status # 429
                                    /\ lastResponse'.email # "") =>
          /\ lastResponse'.status = 200
          /\ lastResponse'.success
          /\ lastResponse'.message = "If an account exists"
          /\ lastResponse'.retryAfter = 0
          /\ IF ForgotTarget(lastResponse'.email) = {}
             THEN users' = users /\ mailbox' = mailbox
             ELSE LET id == TheOne(ForgotTarget(lastResponse'.email))
                  IN /\ \E m \in mailbox' \ mailbox :
                           /\ m.kind = "reset" /\ m.to = users[id].email
                           /\ users'[id].resetPasswordToken = <<[sha256 |-> m.token]>>
                     /\ users'[id].resetPasswordExpires = <<clock + ResetTokenTtlMs>>
                     /\ \A x \in DOMAIN users \ {id} : users'[x] = users[x]]_vars

\* a request for an address without an account was answered 200 while a
\* reset token is pending on another account
C11_Witness ==
    /\ lastResponse.op = "forgot"
    /\ lastResponse.email = "c@x.io"
    /\ lastResponse.status = 200
    /\ \E id \in DOMAIN users : users[id].resetPasswordToken # <<>>

\* the presented token is the one stored for id, and its expiry lies ahead
ResetTokenGood(id, tok) ==
    /\ users[id].resetPasswordToken = <<[sha256 |-> tok]>>
    /\ users[id].resetPasswordExpires # <<>>
    /\ clock < users[id].resetPasswordExpires[1]

LoginTarget == findOneByEmail(users, toLowerCase(lastResponse.email))

\* a login request for the account whose password was last reset
LoginAfterReset ==
    /\ lastResponse.op = "login"
    /\ lastReset # <<>>
    /\ LoginTarget = {lastReset[1].user}

\* C13: for an existing account, after forgot-password and reset-password
\* with the mailed token and a new password (answer 200), a login with the
\* new password succeeds and a login with the old password fails.
C13_ResetThenLogin ==
    LoginAfterReset =>
        /\ lastResponse.password = lastReset[1].new => lastResponse.status = 200
        /\ (bcryptHash(lastResponse.password) = lastReset[1].oldHash
               /\ lastResponse.password # lastReset[1].new) =>
              lastResponse.status # 200

\* C13 for accounts whose e-mail is verified and logins within the rate
\* limit: the new password logs in and the old one does not; an unverified
\* account is answered 403 with the new password.
C13_ResetThenLoginVerified ==
    (LoginAfterReset /\ lastResponse.status # 429) =>
        /\ lastResponse.password = lastReset[1].new =>
              lastResponse.status =
                 (IF users[lastReset[1].user].isVerified THEN 200 ELSE 403)
        /\ (bcryptHash(lastResponse.password) = lastReset[1].oldHash
               /\ lastResponse.password # lastReset[1].new) =>
              lastResponse.status = 401

\* the verified account logs in with the password it has just set
C13_Witness ==
    /\ LoginAfterReset
    /\ users[lastReset[1].user].isVerified
    /\ lastResponse.password = lastReset[1].new
    /\ lastResponse.status = 200


-----------------------------------------------------------------------------
(* Logins from two clients, with failures, throttling and verification      *)

LoginRequests ==
    { <<"ip1", "a@x.io", "password-1">>, <<"ip1", "a@x.io", "password-2">>,
      <<"ip1", "b@x.io", "password-2">>, <<"ip1", "c@x.io", "password-1">>,
      <<"ip1", "", "password-1">>,
      <<"ip2", "a@x.io", "password-1">>, <<"ip2", "A@x.io", "password-2">> }

LoginTimes == {0, LoginConfig.windowMs, LoginConfig.windowMs + 1}

NextLogin ==
    \/ \E req \in LoginRequests : Login(req[1], req[2], req[3])
    \/ \E tok \in MailedTokens : VerifyEmail(tok)
    \/ \E t \in LoginTimes : AdvanceClockAccount(t)

SpecLogin == InitAccount /\ [][NextLogin]_vars

\* the login request just answered: its client's key and the account named
LoginKey == getRateLimitKey(lastResponse'.ip, "login")
LoginUser == findOneByEmail(users, toLowerCase(lastResponse'.email))
\* the count the limiter holds for key once one more request is counted
CountedOnce(key) ==
    IF NoEntry(rateLimitStore, key) THEN 1
    ELSE IF rateLimitStore[key].resetTime < clock THEN 1
    ELSE rateLimitStore[key].count + 1

C15_LoginResetsThrottle ==
    [][lastResponse'.op = "login" =>
          /\ lastResponse'.status = 200 =>
                /\ LoginKey \notin DOMAIN rateLimitStore'
                /\ DOMAIN rateLimitStore' = DOMAIN rateLimitStore \ {LoginKey}
          /\ lastResponse'.status # 200 =>
                /\ LoginKey \in DOMAIN rateLimitStore'
                /\ rateLimitStore'[LoginKey].count = CountedOnce(LoginKey)
                /\ DOMAIN rateLimitStore' = DOMAIN rateLimitStore \cup {LoginKey}
          /\ \A k \in DOMAIN rateLimitStore \ {LoginKey} :
                k \in DOMAIN rateLimitStore' /\ rateLimitStore'[k] = rateLimitStore[k]
          /\ LoginKey \notin DOMAIN rateLimitStore =>
                /\ lastResponse'.status # 429
                /\ lastResponse'.remaining = LoginConfig.maxRequests - 1]_vars

\* after failures counted in the window a login succeeded and the entry of
\* its key is gone, while the other client's entry is still there
C15_Witness ==
    /\ lastResponse.op = "login"
    /\ lastResponse.status = 200
    /\ lastResponse.ip = "ip1"
    /\ lastResponse.remaining < LoginConfig.maxRequests - 1
    /\ getRateLimitKey("ip1", "login") \notin DOMAIN rateLimitStore
    /\ getRateLimitKey("ip2", "login") \in DOMAIN rateLimitStore

-----------------------------------------------------------------------------
(* From registration to the dashboard: register, /api/auth/me, the guard,   *)
(* verify-email and login on one browser                                    *)

\* the browser stores the cookies of the 201 response of request r
RegDeliver(r) ==
    /\ regs[r].pc = "done"
    /\ regs[r].status = 201
    /\ accessCookie' = regs[r].cookies[1]
    /\ refreshCookie' = regs[r].cookies[2]
    /\ regs' = [regs EXCEPT ![r].pc = "received"]
    /\ lastResponse' = NoResponse
    /\ UNCHANGED <<extVars, clock, tokVars, rlVars, users, acctVars>>

\* getCurrentUser(): the payload of the access_token cookie, or null
getCurrentUser(cookie, nowMs) ==
    IF cookie = <<>> THEN Null ELSE verifyToken(cookie, nowMs)

\* GET /api/auth/me
Me ==
    LET tokenData == getCurrentUser(accessCookie, clock)
        status == IF tokenData = Null THEN 401
                  ELSE IF tokenData.userId \notin DOMAIN users THEN 404
                  ELSE 200
    IN /\ lastResponse' =
             [op |-> "me", status |-> status,
              isVerified |-> IF status = 200 THEN users[tokenData.userId].isVerified
                             ELSE FALSE]
       /\ UNCHANGED <<extVars, clock, tokVars, rlVars, users, accessCookie, refreshCookie,
                      regs, acctVars>>

OnboardBody == [name |-> "Ann", email |-> "c@x.io", password |-> "password-1"]
OnboardPaths == {<<"/dashboard">>, <<"/dashboard", "/settings">>,
                 <<"/dashboard", "/report.pdf">>}
OnboardTimes == {0, 500, 1000, 2000}

InitOnboard ==
    /\ clock = 0
    /\ jwtSecretEnv \in SecretsEnv
    /\ TokIdle
    /\ RlIdle
    /\ rlConfig = [k \in RlKeys |-> LoginConfig]
    /\ users = <<>>
    /\ accessCookie = <<>>
    /\ refreshCookie = <<>>
    /\ lastResponse = NoResponse
    /\ RegIdle
    /\ AcctIdle

NextOnboard ==
    \/ \E r \in Reqs : RegStart(r, "ip1", OnboardBody)
    \/ \E r \in Reqs : RegFind(r)
    \/ \E r \in Reqs : RegCreate(r)
    \/ \E r \in Reqs : RegDeliver(r)
    \/ Me
    \/ \E pathname \in OnboardPaths : GuardRequest(pathname)
    \/ \E tok \in MailedTokens : VerifyEmail(tok)
    \/ FewLogins("ip1") /\ Login("ip1", "c@x.io", "password-1")
    \/ \E t \in OnboardTimes : AdvanceClockAccount(t)

SpecOnboard == InitOnboard /\ [][NextOnboard]_vars

\* the access tokens the registration responses carried
RegisteredTokens == {regs[r].cookies[1] : r \in {x \in Reqs : regs[x].cookies # <<>>}}

\* C16: a successful registration sets access and refresh cookies whose
\* tokens pass verifyToken (so /api/auth/me answers 200 for them) while the
\* record has isVerified = false; a request to a Protected path carrying
\* that access token is redirected to login by the guard; a Protected path
\* is passed only for a user whose e-mail is verified and who has logged in.
C16_RegisteredButGated ==
    /\ \A r \in Reqs :
          (regs[r].pc = "done" /\ regs[r].status = 201) =>
              LET tok == regs[r].cookies[1]
              IN /\ IsIssued(tok) /\ IsIssued(regs[r].cookies[2])
                 /\ PayloadOf(tok).exp > NowSec(clock) => verifyToken(tok, clock) # Null
                 /\ PayloadOf(tok).userId \in DOMAIN users
                 /\ users[PayloadOf(tok).userId].isVerified =>
                        users[PayloadOf(tok).userId].verificationToken = <<>>
    /\ (lastResponse.op = "me" /\ accessCookie \in RegisteredTokens
           /\ PayloadOf(accessCookie).exp > NowSec(clock)) =>
          lastResponse.status = 200
    /\ (lastResponse.op = "middleware" /\ IsProtectedPath(lastResponse.pathname)) =>
          /\ accessCookie \in RegisteredTokens =>
                (lastResponse.action = "redirect" /\ lastResponse.location = "/login")
          /\ lastResponse.action = "next" =>
                /\ accessCookie # <<>>
                /\ users[PayloadOf(accessCookie).userId].isVerified
                /\ users[PayloadOf(accessCookie).userId].lastLoginAt # <<>>

-----------------------------------------------------------------------------
(* Bearer tokens kept outside the cookie jar: issued by login or refresh,   *)
(* kept by their holder, presented again after rotation or logout           *)

\* the holder keeps a copy of one of its cookies
KeepToken(which) ==
    LET tok == IF which = "access" THEN accessCookie ELSE refreshCookie
    IN /\ tok # <<>>
       /\ held' = <<[which |-> which, token |-> tok]>>
       /\ lastResponse' = NoResponse
       /\ UNCHANGED <<extVars, clock, tokVars, rlVars, users, accessCookie, refreshCookie,
                      regs, mailbox, nonce, lastReset>>

\* the holder sends the kept token as its cookie on the next request
PresentKept ==
    /\ held # <<>>
    /\ IF held[1].which = "access"
       THEN accessCookie' = held[1].token /\ UNCHANGED refreshCookie
       ELSE refreshCookie' = held[1].token /\ UNCHANGED accessCookie
    /\ lastResponse' = NoResponse
    /\ UNCHANGED <<extVars, clock, tokVars, rlVars, users, regs, acctVars>>

NextBearer ==
    \/ Login("ip1", "a@x.io", "password-1")
    \/ Refresh
    \/ Logout
    \/ \E which \in {"access", "refresh"} : KeepToken(which)
    \/ PresentKept
    \/ Me
    \/ \E t \in TimePoints : AdvanceClockSession(t)

SpecBearer == InitSession /\ [][NextBearer]_vars

\* the expiry of tok lies after the current second
Unexpired(tok) == PayloadOf(tok).exp > NowSec(clock)

\* C17: no operation invalidates an issued token: after logout and after
\* any number of refresh rotations every previously issued token that has
\* not expired still passes verifyToken, and a previously issued unexpired
\* refresh token is still redeemed at /api/auth/refresh for a new pair;
\* logout only empties both cookies and answers 200 whoever calls it.
C17_StatelessBearerTokens ==
    /\ (held # <<>> /\ Unexpired(held[1].token)) =>
          verifyToken(held[1].token, clock) # Null
    /\ (lastResponse.op = "refresh" /\ lastResponse.presented # <<>>
           /\ IsIssued(lastResponse.presented)
           /\ Unexpired(lastResponse.presented)) =>
          /\ lastResponse.status = 200 /\ lastResponse.setCookies
          /\ IsIssued(accessCookie) /\ IsIssued(refreshCookie)
          /\ PayloadOf(accessCookie).iat = NowSec(clock)
    /\ (lastResponse.op = "me" /\ accessCookie # <<>> /\ IsIssued(accessCookie)
           /\ Unexpired(accessCookie)) =>
          lastResponse.status = 200
    /\ lastResponse.op = "logout" =>
          /\ lastResponse.status = 200
          /\ accessCookie = <<>> /\ refreshCookie = <<>>

\* after a logout emptied the jar, the refresh token kept from before it
\* was redeemed for a new pair
C17_Witness ==
    /\ lastResponse.op = "refresh"
    /\ lastResponse.status = 200
    /\ lastResponse.accessBefore = <<>>
    /\ held # <<>>
    /\ held[1].which = "refresh"
    /\ lastResponse.presented = held[1].token

\* the token flows alone: drawing, storing, presenting
InitTokens ==
    /\ clock = 0
    /\ jwtSecretEnv = "k1"
    /\ TokIdle
    /\ RlIdle
    /\ rlConfig = [k \in RlKeys |-> RegisterConfig]
    /\ users = [x \in {ObjectIdOf(0)} |->
                   NewUser("Bob", "b@x.io", "password-2", <<hashToken(generateToken(0))>>)]
    /\ accessCookie = <<>>
    /\ refreshCookie = <<>>
    /\ lastResponse = NoResponse
    /\ RegIdle
    /\ mailbox = {Mail("verify", "b@x.io", generateToken(0))}
    /\ nonce = 1
    /\ held = <<>>
    /\ lastReset = <<>>
    /\ ExtIdle

NextTokens ==
    \/ RegStart(1, "ip1", OnboardBody)
    \/ RegFind(1)
    \/ RegCreate(1)
    \/ \E email \in {"b@x.io", "C@x.io"} : ForgotPassword("ip1", email)
    \/ \E tok \in PresentedTokens \cup StoredTokens : ResetPassword(tok, "password-3")
    \/ \E tok \in PresentedTokens \cup StoredTokens : VerifyEmail(tok)
    \/ ResendVerification("b@x.io")
    \/ \E t \in {0, ResetTokenTtlMs} : AdvanceClockAccount(t)

SpecTokens == InitTokens /\ [][NextTokens]_vars

\* the token fields of the collection, each with the kind of e-mail it
\* belongs to
TokenFields ==
    {[kind |-> "verify", field |-> users[id].verificationToken] : id \in DOMAIN users}
    \cup {[kind |-> "reset", field |-> users[id].resetPasswordToken] : id \in DOMAIN users}

-----------------------------------------------------------------------------
(* Two rate limiters fed the same calls: one whose store the setInterval    *)
(* sweep visits (rateLimitStore), one that never runs it (plainStore)       *)

BelowMaxCountIn(store, key) ==
    IF NoEntry(store, key) THEN TRUE
    ELSE IF WindowExpired(store[key], clock) THEN TRUE
    ELSE store[key].count < MaxCount

\* what checkRateLimit returns
ResultOf(r) == [allowed |-> r.allowed, remaining |-> r.remaining, resetIn |-> r.resetIn]

\* the same call made on both limiters
CheckBoth(key) ==
    /\ BelowMaxCountIn(rateLimitStore, key)
    /\ BelowMaxCountIn(plainStore, key)
    /\ LET r == checkRateLimit(rateLimitStore, key, rlConfig[key], clock)
           p == checkRateLimit(plainStore, key, rlConfig[key], clock)
       IN /\ rateLimitStore' = r.store
          /\ plainStore' = p.store
          /\ rlLast' = [key |-> key, swept |-> ResultOf(r), plain |-> ResultOf(p)]
    /\ UNCHANGED <<envVars, sendAttempts, clock, tokVars, rlConfig, rlGhost, sessVars,
                   regs, acctVars>>

ResetBoth(key) ==
    /\ rateLimitStore' = resetRateLimit(rateLimitStore, key)
    /\ plainStore' = resetRateLimit(plainStore, key)
    /\ rlLast' = NotRun
    /\ UNCHANGED <<envVars, sendAttempts, clock, tokVars, rlConfig, rlGhost, sessVars,
                   regs, acctVars>>

\* the sweep fires on the first limiter only
Sweep ==
    /\ rateLimitStore' = cleanup(rateLimitStore, clock)
    /\ rlLast' = NotRun
    /\ UNCHANGED <<extVars, clock, tokVars, rlConfig, rlGhost, sessVars, regs, acctVars>>

NextSweep ==
    \/ \E key \in RlKeys : CheckBoth(key)
    \/ \E key \in RlKeys : ResetBoth(key)
    \/ Sweep
    \/ TickRate

SpecSweep == InitRate /\ [][NextSweep]_vars

\* the entries checkRateLimit does not treat as absent at time now
LiveEntries(store, now) ==
    [k \in {x \in DOMAIN store : ~WindowExpired(store[x], now)} |-> store[k]]

\* C21: for every sequence of calls and sweeps the limiter with the sweep
\* and the limiter without it return the same {allowed, remaining, resetIn}
\* for every call, and the sweep only ever removes entries that
\* checkRateLimit treats as absent: the two stores hold the same live
\* entries and the swept store holds nothing the plain one lacks.
C21_SweepNeutral ==
    /\ rlLast # NotRun => rlLast.swept = rlLast.plain
    /\ LiveEntries(rateLimitStore, clock) = LiveEntries(plainStore, clock)
    /\ \A k \in DOMAIN rateLimitStore :
          k \in DOMAIN plainStore /\ plainStore[k] = rateLimitStore[k]

\* a call answered after the sweep removed the key's expired entry, which
\* the limiter without the sweep still holds a newer entry for
C21_Witness ==
    /\ rlLast # NotRun
    /\ rlLast.swept.allowed
    /\ \E k \in DOMAIN plainStore :
          /\ k # rlLast.key
          /\ k \notin DOMAIN rateLimitStore
          /\ WindowExpired(plainStore[k], clock)

-----------------------------------------------------------------------------
(* Retries and late redemption of verification links                        *)

\* C22: a verify-email request that repeats, with the same token, the
\* request that has just verified the account is a no-op success: it is
\* answered 200 and leaves the user record unchanged and verified.  (A
\* step that leaves regs alone and ends with a verify response is a
\* verify-email request: registration steps do not write lastResponse.)
C22_VerifyRetryIdempotent ==
    [][(/\ lastResponse.op = "verify"
        /\ lastResponse.status = 200
        /\ regs' = regs
        /\ lastResponse'.op = "verify"
        /\ lastResponse'.token = lastResponse.token) =>
          /\ lastResponse'.status = 200
          /\ users' = users]_vars

\* "This link expires in 24 hours" (e-mail copy and README)
AdvisoryLifetimeMs == 24 * 60 * 60 * 1000

VerifyTimes == {AdvisoryLifetimeMs, AdvisoryLifetimeMs + 1, 20 * AdvisoryLifetimeMs}

NextVerify ==
    \/ RegStart(1, "ip1", OnboardBody)
    \/ RegFind(1)
    \/ RegCreate(1)
    \/ \E email \in {"b@x.io", "C@x.io"} : ResendVerification(email)
    \/ \E tok \in PresentedTokens : VerifyEmail(tok)
    \/ \E t \in VerifyTimes : AdvanceClockAccount(t)

SpecVerify == InitTokens /\ [][NextVerify]_vars

\* the user whose stored verification hash is the hash of tok
VerifyTarget(tok) ==
    {id \in DOMAIN users : users[id].verificationToken = <<hashToken(tok)>>}

-----------------------------------------------------------------------------
(* Registration while the mail transport is unconfigured, up or down        *)

MailBodies ==
    { [name |-> "Ann", email |-> "a@x.io", password |-> "password-1"],
      [name |-> "Cy", email |-> "c@x.io", password |-> "password-1"],
      [name |-> "Cy", email |-> "c@x.io", password |-> "short"] }

\* the SMTP server goes away or comes back between requests
TransportFlip ==
    /\ smtp # "none"
    /\ smtp' = IF smtp = "up" THEN "down" ELSE "up"
    /\ UNCHANGED <<appVars, plainStore, dbVars, sendAttempts, clock, tokVars, rlVars, sessVars,
                   regs, acctVars>>

InitMail ==
    /\ clock = 0
    /\ jwtSecretEnv = "k1"
    /\ TokIdle
    /\ RlIdle
    /\ rlConfig = [k \in RlKeys |-> RegisterConfig]
    /\ SessIdle
    /\ RegIdle
    /\ mailbox = {}
    /\ nonce = 1
    /\ held = <<>>
    /\ lastReset = <<>>
    /\ plainStore = <<>>
    /\ DbIdle
    /\ AppIdle
    /\ smtp \in {"none", "up", "down"}
    /\ sendAttempts = 0

NextMail ==
    \/ \E r \in Reqs, body \in MailBodies : RegStart(r, "ip1", body)
    \/ \E r \in Reqs : RegFind(r)
    \/ \E r \in Reqs : RegCreate(r)
    \/ \E r \in Reqs : RegDeliver(r)
    \/ TransportFlip

SpecMail == InitMail /\ [][NextMail]_vars

RegFinished(r) == regs[r].pc \in {"done", "received"}
\* the verification e-mails that arrived for the address of request r
MailOf(r) == {m \in mailbox : m.kind = "verify" /\ m.to = regs[r].email}
RegCreated == {r \in Reqs : RegFinished(r) /\ regs[r].status = 201}

\* C24: a well-formed, non-rate-limited registration for a free address
\* that no other request contests is answered 201 with both auth cookies
\* and its user record exists, whether or not its verification e-mail
\* arrived; transporter.sendMail is called exactly once per created
\* account when SMTP is configured (never again after a failure), and only
\* e-mails of created accounts arrive.
C24_MailFailureKeepsAccount ==
    /\ \A r \in Reqs :
          (/\ RegFinished(r)
           /\ RegWellFormed(r)
           /\ RegSameEmail(toLowerCase(regs[r].email)) = {r}) =>
              /\ regs[r].status = 201
              /\ Len(regs[r].cookies) = 2
              /\ verifyToken(regs[r].cookies[1], clock) # Null
              /\ ObjectIdOf(r) \in DOMAIN users
              /\ users[ObjectIdOf(r)].email = toLowerCase(regs[r].email)
              /\ users[ObjectIdOf(r)].verificationToken # <<>>
    /\ sendAttempts = IF smtp = "none" THEN 0 ELSE Cardinality(RegCreated)
    /\ \A m \in mailbox : \E r \in RegCreated : m \in MailOf(r)

\* the one account created so far was created while the transport was
\* down: its send was attempted once, no e-mail arrived, and the browser
\* holds the cookies of the 201 response
C24_Witness ==
    \E r \in Reqs :
        /\ RegCreated = {r}
        /\ regs[r].pc = "received"
        /\ accessCookie = regs[r].cookies[1]
        /\ ObjectIdOf(r) \in DOMAIN users
        /\ MailOf(r) = {}
        /\ mailbox = {}
        /\ smtp = "down"
        /\ sendAttempts = 1

-----------------------------------------------------------------------------
(* Every auth endpoint on one server                                        *)

NextEndpoints ==
    \/ RegStart(1, "ip1", OnboardBody)
    \/ RegFind(1)
    \/ RegCreate(1)
    \/ \E password \in {"password-2", "nope"} :
           FewLogins("ip1") /\ Login("ip1", "b@x.io", password)
    \/ \E tok \in PresentedTokens : VerifyEmail(tok)
    \/ ForgotPassword("ip1", "b@x.io")
    \/ \E tok \in PresentedTokens : ResetPassword(tok, "password-2")
    \/ Refresh
    \/ Me

SpecEndpoints == InitTokens /\ [][NextEndpoints]_vars

\* the endpoints that answer through lastResponse
AuthOps == {"login", "verify", "forgot", "reset", "refresh", "me"}

\* C25: every request to an auth endpoint runs checkRateLimit first, so
\* the step that answers it changes the limiter's store (a new window or
\* one more counted call); a request answered 429 carries Retry-After in
\* seconds and changes neither the users, nor the mailbox, nor the cookies.
C25_RateLimitFirst ==
    [][(regs' = regs /\ lastResponse'.op \in AuthOps) =>
          /\ rateLimitStore' # rateLimitStore
          /\ lastResponse'.status = 429 =>
                /\ lastResponse'.retryAfter > 0
                /\ users' = users
                /\ mailbox' = mailbox
                /\ accessCookie' = accessCookie
                /\ refreshCookie' = refreshCookie]_vars

-----------------------------------------------------------------------------
(* What resend-verification tells the caller                                *)

\* the response when no account has the address (part_010:79-85)
ResendNoAccount == [status |-> 200, message |-> "If an account exists"]

\* C26: every resend-verification request with a non-empty email gets the
\* status and body it would get if no account had that email, whether the
\* address belongs to no account, to an unverified one or to a verified one.
C26_ResendAntiEnumeration ==
    [][(regs' = regs /\ lastResponse'.op = "resend" /\ lastResponse'.email # "") =>
          /\ lastResponse'.status = ResendNoAccount.status
          /\ lastResponse'.message = ResendNoAccount.message]_vars

-----------------------------------------------------------------------------
(* Database connection cache: src/lib/db/connection.ts.  A connect attempt  *)
(* is the promise chain mongoose.connect(...).then(...).catch(...) stored   *)
(* in cached.promise; a dbConnect call runs up to its await, and resumes    *)
(* when the promise it awaits has settled.  Continuations are promise jobs: *)
(* the callers awaiting one promise resume in the order they awaited it,    *)
(* with nothing in between, and after the .then/.catch handler of the       *)
(* attempt.  A call made from another promise chain of the same turn can    *)
(* run between the handler and the first of them.                           *)

Settled(a) == dbState.att[a] \in {"ok", "failed"}
\* the callers of a settled attempt have not all resumed
Draining == \E a \in Attempts : Settled(a) /\ dbState.waitQ[a] # <<>>
\* some have resumed and some have not: their jobs are adjacent in the queue
HalfDrained ==
    \E a \in Attempts : Settled(a) /\ dbState.waitQ[a] # <<>> /\ dbState.touched[a]

NextAttempt == 1 + Cardinality({a \in Attempts : dbState.att[a] # "none"})

\* dbConnect(), lines 73-98, up to the await (or to the early return)
DbConnectCall(c) ==
    LET start == cached.promise = 0
        a == IF start THEN NextAttempt ELSE cached.promise
    IN /\ dbState.pc[c] = "idle"
       /\ ~HalfDrained
       /\ IF cached.conn # 0
          THEN /\ dbState' = [dbState EXCEPT !.pc[c] = "done", !.on[c] = cached.conn]
               /\ UNCHANGED cached
          ELSE /\ start => NextAttempt <= MaxAttempts
               /\ cached' = [cached EXCEPT !.promise = a]
               /\ dbState' = [dbState EXCEPT
                      !.att[a] = IF start THEN "pending" ELSE @,
                      !.waitQ[a] = Append(@, c),
                      !.pc[c] = "waiting",
                      !.on[c] = a]
       /\ UNCHANGED <<appVars, plainStore, smtp, sendAttempts, clock, tokVars, rlVars, sessVars,
                      regs, acctVars>>

\* mongoose.connect resolves: the .then handler of lines 86-89 runs
AttemptSucceeds(a) ==
    /\ dbState.att[a] = "pending"
    /\ ~Draining
    /\ dbState' = [dbState EXCEPT !.att[a] = "ok"]
    /\ UNCHANGED <<appVars, cached, plainStore, smtp, sendAttempts, clock, tokVars, rlVars,
                   sessVars, regs, acctVars>>

\* mongoose.connect rejects: the .catch handler of lines 90-94 runs
AttemptFails(a) ==
    /\ dbState.att[a] = "pending"
    /\ ~Draining
    /\ cached' = [cached EXCEPT !.promise = 0]
    /\ dbState' = [dbState EXCEPT !.att[a] = "failed"]
    /\ UNCHANGED <<appVars, plainStore, smtp, sendAttempts, clock, tokVars, rlVars, sessVars,
                   regs, acctVars>>

\* lines 97-104: the await returns or throws
DbConnectResume(c) ==
    LET a == dbState.on[c]
    IN /\ dbState.pc[c] = "waiting"
       /\ Settled(a)
       /\ Head(dbState.waitQ[a]) = c
       /\ cached' = IF dbState.att[a] = "ok" THEN [cached EXCEPT !.conn = a]
                    ELSE [cached EXCEPT !.promise = 0]
       /\ dbState' = [dbState EXCEPT
              !.pc[c] = IF dbState.att[a] = "ok" THEN "done" ELSE "error",
              !.waitQ[a] = Tail(@),
              !.touched[a] = TRUE]
       /\ UNCHANGED <<appVars, plainStore, smtp, sendAttempts, clock, tokVars, rlVars, sessVars,
                      regs, acctVars>>

\* the request that called dbConnect ends; the caller may call again
DbCallerReturns(c) ==
    /\ dbState.pc[c] \in {"done", "error"}
    /\ dbState' = [dbState EXCEPT !.pc[c] = "idle", !.on[c] = 0]
    /\ UNCHANGED <<appVars, cached, plainStore, smtp, sendAttempts, clock, tokVars, rlVars,
                   sessVars, regs, acctVars>>

\* dbDisconnect(), lines 111-113: up to await mongoose.disconnect()
DbDisconnectStart ==
    /\ ~dbState.disc
    /\ cached.conn # 0
    /\ ~HalfDrained
    /\ dbState' = [dbState EXCEPT !.disc = TRUE]
    /\ UNCHANGED <<appVars, cached, plainStore, smtp, sendAttempts, clock, tokVars, rlVars,
                   sessVars, regs, acctVars>>

\* dbDisconnect(), lines 114-116
DbDisconnectFinish ==
    /\ dbState.disc
    /\ ~Draining
    /\ cached' = [conn |-> 0, promise |-> 0]
    /\ dbState' = [dbState EXCEPT
           !.disc = FALSE,
           !.att = [a \in Attempts |-> IF a = cached.conn THEN "closed" ELSE @[a]]]
    /\ UNCHANGED <<appVars, plainStore, smtp, sendAttempts, clock, tokVars, rlVars, sessVars,
                   regs, acctVars>>

NextDb ==
    \/ \E c \in DbCallers : DbConnectCall(c)
    \/ \E a \in Attempts : AttemptSucceeds(a)
    \/ \E a \in Attempts : AttemptFails(a)
    \/ \E c \in DbCallers : DbConnectResume(c)
    \/ \E c \in DbCallers : DbCallerReturns(c)
    \/ DbDisconnectStart
    \/ DbDisconnectFinish

InitDb ==
    /\ clock = 0
    /\ jwtSecretEnv = "k1"
    /\ TokIdle
    /\ RlIdle
    /\ rlConfig = [k \in RlKeys |-> LoginConfig]
    /\ SessIdle
    /\ RegIdle
    /\ AcctIdle

SpecDb == InitDb /\ [][NextDb]_vars

InFlight == {a \in Attempts : dbState.att[a] = "pending"}

\* C27: at most one mongoose.connect attempt is in flight at a time and
\* its promise is the cached one, so every caller shares it; a cached
\* connection is that of a successful attempt; a caller that returned got
\* the connection of a successful attempt and one that threw awaited a
\* failed one; and once a failed attempt is over (its callers have
\* resumed, nothing in flight, nothing connected) the cache holds
\* conn = null and promise = null.
C27_ConnectionSingleton ==
    /\ Cardinality(InFlight) <= 1
    /\ \A a \in InFlight : cached.promise = a /\ cached.conn = 0
    /\ cached.conn # 0 => dbState.att[cached.conn] = "ok"
    /\ \A c \in DbCallers :
          /\ dbState.pc[c] = "done" => dbState.att[dbState.on[c]] \in {"ok", "closed"}
          /\ dbState.pc[c] = "error" => dbState.att[dbState.on[c]] = "failed"
    /\ (InFlight = {} /\ ~Draining /\ \A a \in Attempts : dbState.att[a] # "ok") =>
          cached = [conn |-> 0, promise |-> 0]

-----------------------------------------------------------------------------
(* PATCH /api/users/[id] (app/api/users/[id]/route.ts:45-83) next to the    *)
(* flows that own the verification and credential fields                    *)

\* request bodies: a profile change, and bodies naming protected fields
PatchBodies ==
    { [name |-> "Zed"],
      [name |-> "Zed", password |-> "password-9", email |-> "z@x.io", role |-> "admin"],
      [isVerified |-> TRUE],
      [isVerified |-> FALSE],
      [verificationToken |-> <<hashToken(GuessedToken)>>],
      [resetPasswordToken |-> <<hashToken(GuessedToken)>>,
       resetPasswordExpires |-> <<2 * ResetTokenTtlMs>>] }

\* const { password, email, role, ...updateData } = body
updateData(body) == [f \in DOMAIN body \ {"password", "email", "role"} |-> body[f]]

\* findByIdAndUpdate(id, { $set: update }): the paths of the schema that
\* the update names are overwritten
findByIdAndUpdate(coll, id, update) ==
    LET old == coll[id]
        new == [f \in DOMAIN old |-> IF f \in DOMAIN update THEN update[f] ELSE old[f]]
    IN [x \in DOMAIN coll |-> IF x = id THEN new ELSE coll[x]]

\* PATCH /api/users/[id]
PatchUser(id, body) ==
    /\ users' = IF id \in DOMAIN users
                THEN findByIdAndUpdate(users, id, updateData(body))
                ELSE users
    /\ lastResponse' = [op |-> "patch", id |-> id, body |-> body,
                        status |-> IF id \in DOMAIN users THEN 200 ELSE 404]
    /\ UNCHANGED <<extVars, clock, tokVars, rlVars, accessCookie, refreshCookie, regs,
                   acctVars>>

NextPatch ==
    \/ ForgotPassword("ip1", "b@x.io")
    \/ \E tok \in PresentedTokens : ResetPassword(tok, "password-3")
    \/ \E tok \in PresentedTokens : VerifyEmail(tok)
    \/ ResendVerification("b@x.io")
    \/ \E id \in {ObjectIdOf(0), ObjectIdOf(1)}, body \in PatchBodies : PatchUser(id, body)

SpecPatch == InitTokens /\ [][NextPatch]_vars

\* C28: in every step, a user's isVerified changes only from false to true
\* and only in a verify-email request whose token hash matched the stored
\* verificationToken; verificationToken, resetPasswordToken and
\* resetPasswordExpires of an existing user change only in forgot-password,
\* reset-password, verify-email and resend steps; and PATCH /api/users/[id]
\* changes none of password, email, role, isVerified, verificationToken,
\* resetPasswordToken, resetPasswordExpires.
C28_FieldsChangeOnlyByFlows ==
    [][\A id \in DOMAIN users \cap DOMAIN users' :
          /\ users'[id].isVerified # users[id].isVerified =>
                /\ users'[id].isVerified
                /\ lastResponse'.op = "verify"
                /\ lastResponse'.status = 200
                /\ users[id].verificationToken = <<hashToken(lastResponse'.token)>>
          /\ (\/ users'[id].verificationToken # users[id].verificationToken
              \/ users'[id].resetPasswordToken # users[id].resetPasswordToken
              \/ users'[id].resetPasswordExpires # users[id].resetPasswordExpires) =>
                lastResponse'.op \in {"forgot", "reset", "verify", "resend"}
          /\ (lastResponse'.op = "patch" /\ regs' = regs) =>
                \A f \in {"password", "email", "role", "isVerified", "verificationToken",
                          "resetPasswordToken", "resetPasswordExpires"} :
                   users'[id][f] = users[id][f]]_vars

-----------------------------------------------------------------------------
(* Concurrent reset-password requests.  The handler awaits the database     *)
(* twice, at User.findOne and at user.save(); between the two awaits other  *)
(* requests run.                                                            *)

\* lines 12-62: validation and await User.findOne(...)
ResetFind(r, tok, password) ==
    LET bad == ResetOutcome(tok, password)
        found == findByResetToken(users, hashToken(tok), clock)
    IN /\ resets[r].pc = "idle"
       /\ resets' = [resets EXCEPT ![r] =
             IF bad # "none"
             THEN [@ EXCEPT !.pc = "done", !.token = <<tok>>, !.password = password,
                            !.status = 400]
             ELSE [@ EXCEPT !.pc = "save", !.token = <<tok>>, !.password = password,
                            !.user = <<TheOne(found)>>]]
       /\ UNCHANGED <<questions, plainStore, smtp, dbVars, sendAttempts, clock, tokVars,
                      rlVars, sessVars, regs, acctVars>>

\* lines 64-73: the document loaded by findOne is changed and saved; save()
\* writes the modified paths of the document with that _id
ResetSave(r) ==
    LET id == resets[r].user[1]
    IN /\ resets[r].pc = "save"
       /\ users' = [users EXCEPT ![id].password = bcryptHash(resets[r].password),
                                 ![id].resetPasswordToken = <<>>,
                                 ![id].resetPasswordExpires = <<>>]
       /\ resets' = [resets EXCEPT ![r] =
             [@ EXCEPT !.pc = "done", !.status = 200,
                       !.stale = users[id].resetPasswordToken
                                    # <<hashToken(resets[r].token[1])>>]]
       /\ lastReset' = <<[user |-> id, new |-> resets[r].password,
                          oldHash |-> users[id].password]>>
       /\ UNCHANGED <<questions, plainStore, smtp, dbVars, sendAttempts, clock, tokVars,
                      rlVars, accessCookie, refreshCookie, lastResponse, regs, mailbox,
                      nonce, held>>

NextResets ==
    \/ ForgotPassword("ip1", "a@x.io")
    \/ \E r \in Reqs, tok \in PresentedTokens, password \in {"password-3", "password-4"} :
           ResetFind(r, tok, password)
    \/ \E r \in Reqs : ResetSave(r)
    \/ \E t \in {ResetTokenTtlMs} : AdvanceClockAccount(t)

SpecResets == InitAccount /\ [][NextResets]_vars

\* the e-mailed reset tokens
ResetTokensMailed == {m.token : m \in {x \in mailbox : x.kind = "reset"}}
ResetAnswered(tok, status) ==
    {r \in Reqs : resets[r].pc = "done" /\ resets[r].token = <<tok>>
                                        /\ resets[r].status = status}

\* C29: whatever the interleaving of the reset-password requests, each
\* e-mailed reset token has at most one request answered 200; every other
\* answered request presenting it got 400; and a request answered 200
\* presented the token that was stored when its password was written.
C29_ResetTokenSingleUse ==
    /\ \A tok \in ResetTokensMailed : Cardinality(ResetAnswered(tok, 200)) <= 1
    /\ \A r \in Reqs :
          resets[r].pc = "done" =>
             /\ resets[r].status \in {200, 400}
             /\ resets[r].status = 200 => ~resets[r].stale

-----------------------------------------------------------------------------
(* Question creation: POST /api/questions, in its two revisions            *)
(* (src/app/api/questions/route.ts:82-128 and                              *)
(* src/app/api/users/[id]/route.ts:167-242)                                *)

MaxQuestions == 2

QuestionBodies ==
    {[title |-> "t", body |-> "b", author |-> a] : a \in {<<>>, <<"u1">>, <<"u2">>}}

QuestionResponse(via, status, presented) ==
    [op |-> "question", via |-> via, status |-> status, presented |-> presented]

\* the request first passes the route guard, whose protectedRoutes do not
\* list /api/questions (src/middleware.ts:14-16, 78-125)
GuardLetsThrough(cookie) ==
    middleware(<<"/api/questions">>, cookie, clock).action = "next"

\* route.ts:82-128: the author is read from the request body
PostQuestion(body) ==
    /\ Len(questions) < MaxQuestions
    /\ GuardLetsThrough(accessCookie)
    /\ IF body.author = <<>>
       THEN /\ lastResponse' = QuestionResponse("body", 401, accessCookie)
            /\ UNCHANGED questions
       ELSE /\ questions' = Append(questions,
                                   [title |-> body.title, author |-> body.author[1]])
            /\ lastResponse' = QuestionResponse("body", 201, accessCookie)
    /\ UNCHANGED <<resets, plainStore, smtp, dbVars, sendAttempts, clock, tokVars,
                   rlVars, users, accessCookie, refreshCookie, regs, acctVars>>

\* lines 181-201: the payload of the access_token cookie is decoded, its exp
\* compared to the clock, and its userId taken
CookieUserId(cookie, nowMs) ==
    IF cookie = <<>> THEN [status |-> 401, userId |-> <<>>]
    ELSE IF Len(cookie) # 3 THEN [status |-> 401, userId |-> <<>>]
    ELSE LET parsed == JSONparse(atobDecode(cookie[2]))
         IN IF ~parsed.ok THEN [status |-> 401, userId |-> <<>>]
            ELSE IF ~IsObject(parsed.val) THEN [status |-> 401, userId |-> <<>>]
            ELSE IF IsExpired(parsed.val.exp, nowMs)
                 THEN [status |-> 401, userId |-> <<>>]
            ELSE [status |-> 201, userId |-> <<parsed.val.userId>>]

\* users/[id]/route.ts:167-242: the author is read from the cookie's payload
PostQuestionCookie(body) ==
    LET who == CookieUserId(accessCookie, clock)
    IN /\ Len(questions) < MaxQuestions
       /\ GuardLetsThrough(accessCookie)
       /\ IF who.status = 401
          THEN /\ lastResponse' = QuestionResponse("cookie", 401, accessCookie)
               /\ UNCHANGED questions
          ELSE /\ questions' = Append(questions,
                                      [title |-> body.title, author |-> who.userId[1]])
               /\ lastResponse' = QuestionResponse("cookie", 201, accessCookie)
       /\ UNCHANGED <<resets, plainStore, smtp, dbVars, sendAttempts, clock, tokVars,
                      rlVars, users, accessCookie, refreshCookie, regs, acctVars>>

QuestionTimes ==
    {parseDuration(JWT_EXPIRES_IN), parseDuration(JWT_EXPIRES_IN) + MsPerSec}

NextQuestions ==
    \/ Login("ip1", "a@x.io", "password-1")
    \/ Logout
    \/ \E kind \in {"twoSegments", "wrongSignature", "alterPayload",
                    "nullPayloadResigned"} : TamperCookie("access", kind)
    \/ \E t \in QuestionTimes : AdvanceClockSession(t)
    \/ \E body \in QuestionBodies : PostQuestion(body)
    \/ \E body \in QuestionBodies : PostQuestionCookie(body)

SpecQuestions == InitSession /\ [][NextQuestions]_vars

\* the subject of a request's access token under full verification
VerifiedSubject(cookie, nowMs) ==
    IF cookie = <<>> THEN <<>>
    ELSE IF verifyToken(cookie, nowMs) = Null THEN <<>>
    ELSE <<verifyToken(cookie, nowMs).userId>>

\* C30: a POST /api/questions request whose access token does not pass full
\* verification (none, expired, or signature not valid under the secret) is
\* answered 401 and stores no question; a question is stored only for a
\* verified token, with that token's subject id as its author.
C30_QuestionNeedsVerifiedToken ==
    [][lastResponse'.op = "question" =>
          LET subject == VerifiedSubject(accessCookie, clock)
          IN IF subject = <<>>
             THEN lastResponse'.status = 401 /\ questions' = questions
             ELSE questions' # questions =>
                     questions'[Len(questions')].author = subject[1]]_vars

=============================================================================
